---- MODULE Spec2Model ----
(***************************************************************************)
(* Question de-duplication and retrieval subsystem of the AptWise backend: *)
(* QdrantVectorService (utils/qdrant_service.py) and                       *)
(* QuestionUpdationService (utils/updation_service.py).                    *)
(*                                                                         *)
(* Texts are sequences of one-character strings.  Similarities and         *)
(* thresholds are hundredths (0.85 is 85).  An Optional value is a         *)
(* sequence of length 0 (None) or 1.                                       *)
(***************************************************************************)
EXTENDS Integers, Sequences, FiniteSets, TLC

VARIABLES
    qdrant_client,          \* TRUE iff _initialize_qdrant_client returned a client
    backend_up,             \* environment: do calls to the Qdrant server succeed
    collection_exists,      \* server side: is "python_questions" present
    points,                 \* server side: the points of the collection
    embed,                  \* the sentence-transformer model: text -> vector
    similarity_threshold,   \* QuestionUpdationService.similarity_threshold
    op,                     \* the operation that ran last
    args,                   \* its arguments
    ret,                    \* its return value
    search_returned,        \* what each search call it made returned
    upsert_calls,           \* the upsert calls it issued, each a sequence of points
    threads,                \* calls in progress that other calls can overlap:
                            \* position, arguments, locals, result, calls made
    _vector_service         \* the module's global service instance

vars == <<qdrant_client, backend_up, collection_exists, points, embed,
          similarity_threshold, op, args, ret, search_returned, upsert_calls,
          threads, _vector_service>>

-----------------------------------------------------------------------------
(* Bounds *)

MaxPoints == 3      \* the collection is not grown beyond this many points
MaxBatch == 2       \* longest batch handed to index_documents
MaxLen == 2         \* longest text of the content-id specification

-----------------------------------------------------------------------------
(* Texts *)

None == <<>>
Some(x) == <<x>>

\* question texts the service is called with: whitespace-only, plain, one
\* that strips and normalises to the plain one, unrelated
Texts == { <<" ">>, <<"a">>, <<" ", "A", "?">>, <<"b">> }
Answers == { <<>>, <<"x">> }

Whitespace == {" "}
TrailingPunctuation == {"?", ".", "!"}

RECURSIVE lstrip(_)
lstrip(s) ==
    IF s # <<>> /\ Head(s) \in Whitespace THEN lstrip(Tail(s)) ELSE s

RECURSIVE rstrip(_)
rstrip(s) ==
    IF s # <<>> /\ s[Len(s)] \in Whitespace
    THEN rstrip(SubSeq(s, 1, Len(s) - 1)) ELSE s

\* variant: nothing is trimmed
strip_nothing(s) == s

\* str.strip()
strip(s) == rstrip(lstrip(s))

LowerChar(c) ==
    CASE c = "A" -> "a"
      [] c = "B" -> "b"
      [] c = "X" -> "x"
      [] OTHER -> c

\* str.lower()
lower(s) == [i \in 1..Len(s) |-> LowerChar(s[i])]

RECURSIVE StripTrailingPunctuation(_)
StripTrailingPunctuation(s) ==
    IF s # <<>> /\ s[Len(s)] \in TrailingPunctuation
    THEN StripTrailingPunctuation(SubSeq(s, 1, Len(s) - 1)) ELSE s

\* variant: the text is not trimmed before the comparison
_normalize_question_untrimmed(question) ==
    StripTrailingPunctuation(lower(question))

\* variant: the case is kept
_normalize_question_cased(question) ==
    strip(StripTrailingPunctuation(strip(question)))

_normalize_question(question) ==
    strip(StripTrailingPunctuation(lower(strip(question))))

-----------------------------------------------------------------------------
(* Content ids *)

\* hashlib.md5(...).hexdigest(), taken to be collision-free: the digest is
\* represented by the content it was computed from
Md5Hex(content) == <<"md5", content>>

Digits == <<"0", "1", "2", "3", "4", "5", "6", "7", "8", "9">>

\* variant: a fresh id for every point written (as uuid4 would give)
_generate_fresh_id(question, answer) ==
    Md5Hex(<<Digits[Cardinality(points) + 1]>> \o question \o <<"|">> \o answer)

\* variant: the answer is left out of the hashed content
_generate_id_of_question(question, answer) == Md5Hex(question \o <<"|">>)

_generate_deterministic_id(question, answer) ==
    Md5Hex(question \o <<"|">> \o answer)

-----------------------------------------------------------------------------
(* The embedding model and the Qdrant server *)

\* two unit vectors at an angle of arccos(0.44)
Vectors == {0, 1}

Min(a, b) == IF a <= b THEN a ELSE b

\* cosine similarity of two vectors, in hundredths
CosinePct(u, v) == IF u = v THEN 100 ELSE 44

\* texts that reach the model: raw query texts and stripped stored questions
EmbedTexts == Texts \cup { t \in { strip(q) : q \in Texts } : t # <<>> }

\* what embed holds for a text on which model.encode raises
Raised == 2

generate_embedding(text) == embed[text]

\* all orderings of a finite set
Orderings(S) ==
    { f \in [1..Cardinality(S) -> S] :
        \A i, j \in 1..Cardinality(S) : i # j => f[i] # f[j] }

\* variant: the limit is ignored
QdrantSearch_unlimited(query_vector, limit) ==
    { hits \in Orderings(points) :
        \A i, j \in 1..Len(hits) :
           i < j => CosinePct(query_vector, hits[i].vector)
                      >= CosinePct(query_vector, hits[j].vector) }

\* QdrantClient.search on an existing collection: the limit points nearest
\* to query_vector by cosine score, best first; ties in any order
QdrantSearch(query_vector, limit) ==
    { hits \in UNION { Orderings(S) : S \in SUBSET points } :
        /\ Len(hits) = Min(limit, Cardinality(points))
        /\ \A i, j \in 1..Len(hits) :
             i < j => CosinePct(query_vector, hits[i].vector)
                        >= CosinePct(query_vector, hits[j].vector)
        /\ \A p \in points :
             (\A i \in 1..Len(hits) : hits[i] # p)
               => \A i \in 1..Len(hits) :
                    CosinePct(query_vector, hits[i].vector)
                      >= CosinePct(query_vector, p.vector) }

\* variant: the points are added next to whatever is stored
QdrantInsert(stored, batch) ==
    stored \cup { batch[k] : k \in 1..Len(batch) }

\* QdrantClient.upsert: a point replaces the stored point of the same id
QdrantUpsert(stored, batch) ==
    { p \in stored : \A k \in 1..Len(batch) : batch[k].id # p.id }
      \cup { batch[k] : k \in { n \in 1..Len(batch) :
                                  \A m \in (n + 1)..Len(batch) :
                                      batch[m].id # batch[n].id } }

\* n_results of the search that check_question_exists runs
TopK == 5

\* the possible return values of QdrantVectorService.search; reachable: the
\* server answers the call
search(query_text, n_results, reachable) ==
    IF ~qdrant_client THEN { <<>> }
    ELSE IF generate_embedding(query_text) = Raised THEN { <<>> }
    ELSE IF ~(reachable /\ collection_exists) THEN { <<>> }
    ELSE { [i \in 1..Len(hits) |->
              [id |-> hits[i].id,
               question |-> hits[i].question,
               answer |-> hits[i].answer,
               similarity |-> CosinePct(generate_embedding(query_text),
                                        hits[i].vector),
               rank |-> i]] :
           hits \in QdrantSearch(generate_embedding(query_text), n_results) }

-----------------------------------------------------------------------------
(* QdrantVectorService.index_documents *)

\* variant: the ids seen are not tracked
RECURSIVE CollectPoints_untracked(_, _, _, _)
CollectPoints_untracked(documents, i, seen_ids, acc) ==
    IF i > Len(documents) THEN acc
    ELSE LET question == strip(documents[i].question)
             answer == strip(documents[i].answer)
             point_id == _generate_deterministic_id(question, answer)
         IN  IF question = <<>>
             THEN CollectPoints_untracked(documents, i + 1, seen_ids, acc)
             ELSE CollectPoints_untracked(documents, i + 1, seen_ids,
                      Append(acc, [id |-> point_id,
                                   vector |-> generate_embedding(question),
                                   question |-> question,
                                   answer |-> answer,
                                   source_index |-> i - 1]))

\* the loop over the documents: position i (source_index i - 1), the ids
\* seen so far and the points accumulated so far; a vector of Raised stands
\* for the exception that ends the loop
RECURSIVE CollectPoints(_, _, _, _)
CollectPoints(documents, i, seen_ids, acc) ==
    IF i > Len(documents) THEN acc
    ELSE LET question == strip(documents[i].question)
             answer == strip(documents[i].answer)
             point_id == _generate_deterministic_id(question, answer)
         IN  IF question = <<>>
             THEN CollectPoints(documents, i + 1, seen_ids, acc)
             ELSE IF point_id \in seen_ids
             THEN CollectPoints(documents, i + 1, seen_ids, acc)
             ELSE CollectPoints(documents, i + 1, seen_ids \cup {point_id},
                      Append(acc, [id |-> point_id,
                                   vector |-> generate_embedding(question),
                                   question |-> question,
                                   answer |-> answer,
                                   source_index |-> i - 1]))

\* variant: a failed upsert is swallowed and success reported
index_documents_swallowing(documents, reachable) ==
    IF ~qdrant_client
    THEN [ok |-> FALSE, calls |-> <<>>, points |-> points]
    ELSE LET batch == CollectPoints(documents, 1, {}, <<>>)
         IN  IF \E k \in 1..Len(batch) : batch[k].vector = Raised
             THEN [ok |-> FALSE, calls |-> <<>>, points |-> points]
             ELSE IF batch = <<>>
             THEN [ok |-> FALSE, calls |-> <<>>, points |-> points]
             ELSE IF reachable /\ collection_exists
             THEN [ok |-> TRUE, calls |-> <<batch>>,
                   points |-> QdrantUpsert(points, batch)]
             ELSE [ok |-> TRUE, calls |-> <<batch>>, points |-> points]

\* result: the return value, the upsert calls issued, the points afterwards;
\* an exception of generate_embedding or of upsert is caught and gives False
index_documents(documents, reachable) ==
    IF ~qdrant_client
    THEN [ok |-> FALSE, calls |-> <<>>, points |-> points]
    ELSE LET batch == CollectPoints(documents, 1, {}, <<>>)
         IN  IF \E k \in 1..Len(batch) : batch[k].vector = Raised
             THEN [ok |-> FALSE, calls |-> <<>>, points |-> points]
             ELSE IF batch = <<>>
             THEN [ok |-> FALSE, calls |-> <<>>, points |-> points]
             ELSE IF reachable /\ collection_exists
             THEN [ok |-> TRUE, calls |-> <<batch>>,
                   points |-> QdrantUpsert(points, batch)]
             ELSE [ok |-> FALSE, calls |-> <<batch>>, points |-> points]

-----------------------------------------------------------------------------
(* QuestionUpdationService *)

\* the first of the positions in hits (where a loop over the results
\* returns), 0 if there is none
FirstIndex(hits) ==
    IF hits # {}
    THEN CHOOSE i \in hits : \A j \in hits : i <= j
    ELSE 0

\* the threshold check_question_exists compares with
EffectiveThreshold(threshold) ==
    IF threshold = None THEN similarity_threshold ELSE threshold[1]

\* variant: strict comparison
SimilarityExceeds(similarity, threshold) == similarity > threshold

SimilarityMeets(similarity, threshold) == similarity >= threshold

\* check_question_exists once search has returned search_results
check_question_exists(search_results, question, threshold) ==
    LET thr == EffectiveThreshold(threshold)
        MeetsThreshold(r) == SimilarityMeets(r.similarity, thr)
        SameNormalized(r) ==
            _normalize_question(question) = _normalize_question(r.question)
        byThreshold ==
            FirstIndex({ i \in 1..Len(search_results) :
                           MeetsThreshold(search_results[i]) })
        byText ==
            FirstIndex({ i \in 1..Len(search_results) :
                           SameNormalized(search_results[i]) })
    IN  IF search_results = <<>> THEN <<FALSE, None>>
        ELSE IF byThreshold # 0
        THEN <<TRUE, Some(search_results[byThreshold])>>
        ELSE IF byText # 0
        THEN <<TRUE, Some(search_results[byText])>>
        ELSE <<FALSE, None>>

\* variant: a store that failed is tried once more
store_question_retried(question, answer, reachable) ==
    IF strip(question) = <<>>
    THEN [ok |-> FALSE, calls |-> <<>>, points |-> points]
    ELSE LET first == index_documents(
                 << [question |-> strip(question),
                     answer |-> IF answer # <<>> THEN strip(answer)
                                ELSE <<>>] >>,
                 reachable)
         IN  IF first.ok THEN first
             ELSE [first EXCEPT !.calls = @ \o @]

store_question(question, answer, reachable) ==
    IF strip(question) = <<>>
    THEN [ok |-> FALSE, calls |-> <<>>, points |-> points]
    ELSE index_documents(
            << [question |-> strip(question),
                answer |-> IF answer # <<>> THEN strip(answer) ELSE <<>>] >>,
            reachable)

\* variant: the negation is lost
ShouldStore_unnegated(exists, force_store) == exists \/ force_store

ShouldStore(exists, force_store) == ~exists \/ force_store

\* variant: the tag looks at force_store alone
StoreOutcome_force_only(exists, force_store, stored) ==
    IF stored
    THEN IF force_store
         THEN "stored_despite_similarity"
         ELSE "stored_new_question"
    ELSE "storage_failed"

StoreOutcome(exists, force_store, stored) ==
    IF stored
    THEN IF exists /\ force_store
         THEN "stored_despite_similarity"
         ELSE "stored_new_question"
    ELSE "storage_failed"

\* check_and_store_question once search has returned search_results:
\* the result record, the upsert calls issued, the points afterwards
check_and_store_question(search_results, question, answer, force_store, reachable) ==
    LET found == check_question_exists(search_results, question, None)
        exists == found[1]
        existing_data == found[2]
        stored == store_question(question, answer, reachable)
        result == [question |-> question,
                   exists |-> exists,
                   stored |-> FALSE,
                   similar_question |->
                       IF existing_data # None
                       THEN Some(existing_data[1].question) ELSE None,
                   similarity_score |->
                       IF existing_data # None
                       THEN existing_data[1].similarity ELSE 0,
                   action_taken |-> "none"]
    IN  IF ShouldStore(exists, force_store)
        THEN [result |->
                 [result EXCEPT
                    !.stored = stored.ok,
                    !.action_taken =
                        StoreOutcome(exists, force_store, stored.ok)],
              calls |-> stored.calls,
              points |-> stored.points]
        ELSE [result |-> [result EXCEPT
                            !.action_taken = "skipped_similar_exists"],
              calls |-> <<>>,
              points |-> points]

-----------------------------------------------------------------------------------------------------------------------------------------------------
(* The service after construction, and its operations.  A caller issues one
   operation at a time: the operation runs (op, args, ret and the calls it
   made are what the caller observes), then the caller takes the result. *)

\* the callers that can have a call in progress at the same time
Threads == {1, 2}

\* a caller with no call in progress
IdleThread ==
    [pc |-> "idle", args |-> <<>>, local |-> <<>>, ret |-> <<>>,
     searches |-> <<>>, upserts |-> <<>>, overlapped |-> FALSE]

\* thresholds passed explicitly to check_question_exists
ExplicitThresholds == {0, 44, 45}

Init ==
    /\ qdrant_client \in BOOLEAN
    /\ backend_up = TRUE
    /\ collection_exists \in BOOLEAN
    /\ points = {}
    /\ embed \in [EmbedTexts -> Vectors]
    /\ similarity_threshold = 85
    /\ _vector_service = None
    /\ op = "idle"
    /\ args = <<>>
    /\ ret = <<>>
    /\ search_returned = <<>>
    /\ upsert_calls = <<>>
    /\ threads = [t \in Threads |-> IdleThread]

Return ==
    /\ op # "idle"
    /\ op = "batch_check_and_store" => Len(ret) = Len(args.questions_data)
    /\ op' = "idle" /\ args' = <<>> /\ ret' = <<>>
    /\ search_returned' = <<>> /\ upsert_calls' = <<>>
    /\ UNCHANGED <<qdrant_client, backend_up, collection_exists, points,
                   embed, _vector_service, similarity_threshold, threads>>

\* the server stops answering / answers again
BackendDown ==
    /\ op = "idle"
    /\ backend_up
    /\ backend_up' = FALSE
    /\ UNCHANGED <<qdrant_client, collection_exists, points, embed, _vector_service,
                   similarity_threshold, op, args, ret, search_returned,
                   upsert_calls, threads>>

BackendUp ==
    /\ op = "idle"
    /\ ~backend_up
    /\ backend_up' = TRUE
    /\ UNCHANGED <<qdrant_client, collection_exists, points, embed, _vector_service,
                   similarity_threshold, op, args, ret, search_returned,
                   upsert_calls, threads>>

Search(query_text) ==
    /\ op = "idle"
    /\ \E results \in search(query_text, TopK, backend_up) :
          /\ ret' = results
          /\ search_returned' = <<results>>
    /\ op' = "search"
    /\ args' = [query_text |-> query_text, n_results |-> TopK]
    /\ upsert_calls' = <<>>
    /\ UNCHANGED <<qdrant_client, backend_up, collection_exists, points,
                   embed, _vector_service, similarity_threshold, threads>>

CheckQuestionExists(question, threshold) ==
    /\ op = "idle"
    /\ \E results \in search(question, TopK, backend_up) :
          /\ ret' = check_question_exists(results, question, threshold)
          /\ search_returned' = <<results>>
    /\ op' = "check_question_exists"
    /\ args' = [question |-> question, threshold |-> threshold]
    /\ upsert_calls' = <<>>
    /\ UNCHANGED <<qdrant_client, backend_up, collection_exists, points,
                   embed, _vector_service, similarity_threshold, threads>>

StoreQuestion(question, answer) ==
    LET stored == store_question(question, answer, backend_up)
    IN  /\ op = "idle"
        /\ Cardinality(stored.points) <= MaxPoints
        /\ points' = stored.points
        /\ ret' = stored.ok
        /\ upsert_calls' = stored.calls
        /\ op' = "store_question"
        /\ args' = [question |-> question, answer |-> answer]
        /\ search_returned' = <<>>
        /\ UNCHANGED <<qdrant_client, backend_up, collection_exists, embed, _vector_service,
                       similarity_threshold, threads>>

\* still_up: the server still answers when the store follows the search
CheckAndStoreQuestion(question, answer, force_store, still_up) ==
    /\ op = "idle"
    /\ still_up => backend_up
    /\ \E results \in search(question, TopK, backend_up) :
          LET done == check_and_store_question(results, question, answer,
                                               force_store, still_up)
          IN  /\ Cardinality(done.points) <= MaxPoints
              /\ points' = done.points
              /\ ret' = done.result
              /\ upsert_calls' = done.calls
              /\ search_returned' = <<results>>
    /\ backend_up' = still_up
    /\ op' = "check_and_store_question"
    /\ args' = [question |-> question, answer |-> answer,
                force_store |-> force_store]
    /\ UNCHANGED <<qdrant_client, collection_exists, embed, _vector_service,
                   similarity_threshold, threads>>

IndexDocuments(documents) ==
    LET indexed == index_documents(documents, backend_up)
    IN  /\ op = "idle"
        /\ Cardinality(indexed.points) <= MaxPoints
        /\ points' = indexed.points
        /\ ret' = indexed.ok
        /\ upsert_calls' = indexed.calls
        /\ op' = "index_documents"
        /\ args' = [documents |-> documents]
        /\ search_returned' = <<>>
        /\ UNCHANGED <<qdrant_client, backend_up, collection_exists, embed, _vector_service,
                       similarity_threshold, threads>>

\* variant: the collection is created anew whether it is there or not
CreateCollection_recreating ==
    /\ op = "idle"
    /\ ret' = (qdrant_client /\ backend_up)
    /\ collection_exists' =
          IF qdrant_client /\ backend_up THEN TRUE ELSE collection_exists
    /\ points' = IF qdrant_client /\ backend_up THEN {} ELSE points
    /\ op' = "create_collection" /\ args' = <<>>
    /\ search_returned' = <<>> /\ upsert_calls' = <<>>
    /\ UNCHANGED <<qdrant_client, backend_up, embed, _vector_service, similarity_threshold,
                   threads>>

CreateCollection ==
    /\ op = "idle"
    /\ ret' = (qdrant_client /\ backend_up)
    /\ collection_exists' =
          IF qdrant_client /\ backend_up THEN TRUE ELSE collection_exists
    /\ op' = "create_collection" /\ args' = <<>>
    /\ search_returned' = <<>> /\ upsert_calls' = <<>>
    /\ UNCHANGED <<qdrant_client, backend_up, points, embed, _vector_service,
                   similarity_threshold, threads>>

\* still_up: the server still answers when the create follows the delete
ClearCollection(still_up) ==
    /\ op = "idle"
    /\ still_up => backend_up
    /\ IF qdrant_client /\ backend_up
       THEN /\ points' = {}
            /\ collection_exists' = still_up
            /\ ret' = still_up
       ELSE /\ UNCHANGED <<points, collection_exists>>
            /\ ret' = FALSE
    /\ backend_up' = (IF qdrant_client THEN still_up ELSE backend_up)
    /\ op' = "clear_collection" /\ args' = <<>>
    /\ search_returned' = <<>> /\ upsert_calls' = <<>>
    /\ UNCHANGED <<qdrant_client, embed, _vector_service, similarity_threshold, threads>>

Next ==
    \/ Return
    \/ BackendDown
    \/ BackendUp
    \/ \E q \in Texts : Search(q)
    \/ \E q \in Texts, t \in {None} \cup { Some(x) : x \in ExplicitThresholds } :
          CheckQuestionExists(q, t)
    \/ \E q \in Texts, a \in Answers : StoreQuestion(q, a)
    \/ \E q \in Texts, a \in Answers, f \in BOOLEAN, u \in BOOLEAN :
          CheckAndStoreQuestion(q, a, f, u)
    \/ CreateCollection
    \/ \E u \in BOOLEAN : ClearCollection(u)

Spec == Init /\ [][Next]_vars

-----------------------------------------------------------------------------
(* batch_check_and_store: the loop over questions_data, one
   check_and_store_question per step; ret holds the results so far,
   upsert_calls the upserts of the whole batch and search_returned the
   search of the item handled last. *)

BatchCheckAndStore(questions_data) ==
    /\ op = "idle"
    /\ op' = "batch_check_and_store"
    /\ args' = [questions_data |-> questions_data]
    /\ ret' = <<>>
    /\ search_returned' = <<>> /\ upsert_calls' = <<>>
    /\ UNCHANGED <<qdrant_client, backend_up, collection_exists, points,
                   embed, _vector_service, similarity_threshold, threads>>

\* variant: the results are numbered from one
BatchItem_from_one(still_up) ==
    /\ op = "batch_check_and_store"
    /\ Len(ret) < Len(args.questions_data)
    /\ still_up => backend_up
    /\ LET i == Len(ret)
           question == args.questions_data[i + 1].question
           answer == args.questions_data[i + 1].answer
       IN  \E results \in search(question, TopK, backend_up) :
              LET done == check_and_store_question(results, question, answer,
                                                   FALSE, still_up)
              IN  /\ Cardinality(done.points) <= MaxPoints
                  /\ points' = done.points
                  /\ ret' = Append(ret, [batch_index |-> i + 1,
                                         result |-> done.result])
                  /\ upsert_calls' = upsert_calls \o done.calls
                  /\ search_returned' = <<results>>
    /\ backend_up' = still_up
    /\ UNCHANGED <<qdrant_client, collection_exists, embed, _vector_service,
                   similarity_threshold, op, args, threads>>

\* still_up: the server still answers when the store follows the search
BatchItem(still_up) ==
    /\ op = "batch_check_and_store"
    /\ Len(ret) < Len(args.questions_data)
    /\ still_up => backend_up
    /\ LET i == Len(ret)
           question == args.questions_data[i + 1].question
           answer == args.questions_data[i + 1].answer
       IN  \E results \in search(question, TopK, backend_up) :
              LET done == check_and_store_question(results, question, answer,
                                                   FALSE, still_up)
              IN  /\ Cardinality(done.points) <= MaxPoints
                  /\ points' = done.points
                  /\ ret' = Append(ret, [batch_index |-> i,
                                         result |-> done.result])
                  /\ upsert_calls' = upsert_calls \o done.calls
                  /\ search_returned' = <<results>>
    /\ backend_up' = still_up
    /\ UNCHANGED <<qdrant_client, collection_exists, embed, _vector_service,
                   similarity_threshold, op, args, threads>>

\* the questions_data of the batches: every question text, one answer
BatchData ==
    UNION { [1..n -> [question : Texts, answer : {<<"x">>}]] :
              n \in 0..MaxBatch }

\* embeddings of the batch specification: "b" apart from every other text
\* but the whitespace-only one, which is free
BatchEmbeds ==
    { e \in [EmbedTexts -> Vectors] :
        \A t \in EmbedTexts :
           /\ t = <<"b">> => e[t] = 1
           /\ t \notin {<<"b">>, <<" ">>} => e[t] = 0 }

InitBatch ==
    /\ Init
    /\ embed \in BatchEmbeds

NextBatch ==
    \/ Return
    \/ BackendDown
    \/ BackendUp
    \/ \E q \in Texts, a \in Answers : StoreQuestion(q, a)
    \/ \E q \in Texts, a \in Answers, f \in BOOLEAN, u \in BOOLEAN :
          CheckAndStoreQuestion(q, a, f, u)
    \/ \E u \in BOOLEAN : ClearCollection(u)
    \/ \E questions_data \in BatchData : BatchCheckAndStore(questions_data)
    \/ \E u \in BOOLEAN : BatchItem(u)

SpecBatch == InitBatch /\ [][NextBatch]_vars

-----------------------------------------------------------------------------
(* Indexing alone: batches of documents handed to index_documents.  The
   vectors take no part in it, so one embedding is enough. *)

IndexAnswers == Answers \cup { <<"x", " ">> }
Docs == [question : Texts, answer : IndexAnswers]
Batches == UNION { [1..n -> Docs] : n \in 0..MaxBatch }

InitIndex ==
    /\ Init
    /\ embed = [t \in EmbedTexts |-> 0]

NextIndex ==
    \/ Return
    \/ BackendDown
    \/ BackendUp
    \/ \E docs \in Batches : IndexDocuments(docs)
    \/ CreateCollection
    \/ \E u \in BOOLEAN : ClearCollection(u)

SpecIndex == InitIndex /\ [][NextIndex]_vars

-----------------------------------------------------------------------------
(* Content ids: two documents over every text of up to MaxLen characters,
   indexed in one batch into the empty collection of a healthy backend. *)

IdAlphabet == {"a", "A", " ", "|"}

RECURSIVE StringsUpTo(_)
StringsUpTo(n) ==
    IF n = 0 THEN { <<>> }
    ELSE StringsUpTo(n - 1)
           \cup { Append(s, c) : s \in StringsUpTo(n - 1), c \in IdAlphabet }

IdQuestions == StringsUpTo(MaxLen)
IdAnswers == { <<>>, <<"a">>, <<" ">>, <<"|">>, <<" ", "a">> }
IdDocs == [question : IdQuestions, answer : IdAnswers]

InitId ==
    /\ qdrant_client = TRUE
    /\ backend_up = TRUE
    /\ collection_exists = TRUE
    /\ points = {}
    /\ embed = [t \in IdQuestions |-> 0]
    /\ similarity_threshold = 85
    /\ _vector_service = None
    /\ op = "idle"
    /\ args = <<>>
    /\ ret = <<>>
    /\ search_returned = <<>>
    /\ upsert_calls = <<>>
    /\ threads = [t \in Threads |-> IdleThread]

NextId ==
    \/ Return
    \/ \E d1 \in IdDocs, d2 \in IdDocs :
          points = {} /\ IndexDocuments(<<d1, d2>>)

SpecId == InitId /\ [][NextId]_vars

-----------------------------------------------------------------------------
(* The corpus loader: load_data_from_json and load_all_data_files.  A load
   goes through its calls to the server one at a time, so that two loads can
   overlap; a file is what json.load makes of it. *)

MaxFiles == 2       \* most files in the data directory

\* an item of a parsed file: a JSON object with its question and answer
\* ('' when the key is missing), or a JSON value that is no object
LoadItem(question, answer) ==
    [is_dict |-> TRUE, question |-> question, answer |-> answer]
NotAnObject == [is_dict |-> FALSE, question |-> <<>>, answer |-> <<>>]

\* files of the data directory: name_json, the name ends with .json; kind,
\* what json.load returns: an array, an object with a 'questions' key, any
\* other value, or nothing because open or json.load raised
CorpusFiles ==
    { [name_json |-> TRUE, kind |-> "list",
       data |-> <<LoadItem(<<"a">>, <<"x">>), LoadItem(<<"b">>, <<"x">>)>>],
      [name_json |-> TRUE, kind |-> "list",
       data |-> <<LoadItem(<<"a">>, <<"x">>)>>],
      [name_json |-> TRUE, kind |-> "questions",
       data |-> <<LoadItem(<<"b">>, <<"x">>), LoadItem(<<" ">>, <<"x">>)>>],
      [name_json |-> TRUE, kind |-> "raises", data |-> <<>>],
      [name_json |-> TRUE, kind |-> "other", data |-> <<NotAnObject>>],
      [name_json |-> TRUE, kind |-> "other",
       data |-> <<LoadItem(<<"b", " ">>, <<"x">>)>>],
      [name_json |-> FALSE, kind |-> "list",
       data |-> <<LoadItem(<<"b">>, <<>>)>>] }

\* os.listdir(data_dir), in the order it lists the files
Directories == UNION { [1..n -> CorpusFiles] : n \in 0..MaxFiles }

\* variant: a file that cannot be parsed makes the load give up; the result
\* holds a value that is no object
load_data_from_json_raising(file) ==
    IF file.kind = "raises" THEN <<NotAnObject>>
    ELSE IF file.kind = "other" THEN <<file.data[1]>>
    ELSE file.data

load_data_from_json(file) ==
    IF file.kind = "raises" THEN <<>>
    ELSE IF file.kind = "questions" THEN file.data
    ELSE IF file.kind = "list" THEN file.data
    ELSE <<file.data[1]>>

\* the loop over os.listdir: the documents of the .json files, in order
RECURSIVE AllDocuments(_, _, _)
AllDocuments(files, i, all_documents) ==
    IF i > Len(files) THEN all_documents
    ELSE IF files[i].name_json
    THEN AllDocuments(files, i + 1,
                      all_documents \o load_data_from_json(files[i]))
    ELSE AllDocuments(files, i + 1, all_documents)

ContentKey(doc) == strip(doc.question) \o <<"|">> \o strip(doc.answer)

\* variant: every document is kept
RECURSIVE UniqueDocs_keeping(_, _, _, _)
UniqueDocs_keeping(all_documents, i, seen_content, unique_docs) ==
    IF i > Len(all_documents) THEN unique_docs
    ELSE UniqueDocs_keeping(all_documents, i + 1, seen_content,
                            Append(unique_docs, all_documents[i]))

\* the loop that removes documents of equal content
RECURSIVE UniqueDocs(_, _, _, _)
UniqueDocs(all_documents, i, seen_content, unique_docs) ==
    IF i > Len(all_documents) THEN unique_docs
    ELSE IF ContentKey(all_documents[i]) \in seen_content
    THEN UniqueDocs(all_documents, i + 1, seen_content, unique_docs)
    ELSE UniqueDocs(all_documents, i + 1,
                    seen_content \cup {ContentKey(all_documents[i])},
                    Append(unique_docs, all_documents[i]))

\* variant: the count is never read and stays at its default of 0
collection_exists_and_has_data_defaulted ==
    qdrant_client /\ backend_up /\ collection_exists /\ 0 > 0

collection_exists_and_has_data ==
    qdrant_client /\ backend_up /\ collection_exists /\ points # {}

\* where a call has returned and the caller has not yet taken the result
Terminal == {"done", "STORED", "STORE_FAILED", "SKIPPED", "ERROR"}

Running(rec) == rec.pc \notin {"idle"} \cup Terminal

\* some other caller has a call in progress
Overlaps(t) ==
    \E u \in Threads \ {t} : Running(threads[u])

\* thread t moves to rec; a call that begins while another is in progress
\* marks both as overlapped
Started(t, rec) ==
    [u \in Threads |->
        IF u = t THEN [rec EXCEPT !.overlapped = Overlaps(t)]
        ELSE IF Running(threads[u])
        THEN [threads[u] EXCEPT !.overlapped = TRUE]
        ELSE threads[u]]

Finished(t, value) ==
    [threads EXCEPT ![t].pc = "done", ![t].ret = Some(value)]

\* lines 441-450: the directory test and the short cut; before: the points
\* of the collection when the call began
LoadBegin(t, dir_exists, files, force_reload) ==
    /\ op = "idle"
    /\ threads[t].pc = "idle"
    /\ LET begun == [IdleThread EXCEPT
                       !.args = [dir_exists |-> dir_exists, files |-> files,
                                 force_reload |-> force_reload],
                       !.local = [cleared |-> FALSE, files_read |-> FALSE,
                                  indexed |-> <<>>, before |-> points]]
       IN  threads' =
             IF ~dir_exists
             THEN Started(t, [begun EXCEPT !.pc = "done",
                                           !.ret = Some(FALSE)])
             ELSE IF ~force_reload /\ collection_exists_and_has_data
             THEN Started(t, [begun EXCEPT !.pc = "done",
                                           !.ret = Some(TRUE)])
             ELSE Started(t, [begun EXCEPT !.pc = "create_collection"])
    /\ UNCHANGED <<qdrant_client, backend_up, collection_exists, points,
                   embed, _vector_service, similarity_threshold, op, args, ret,
                   search_returned, upsert_calls>>

\* variant: the collection is created anew whether it is there or not
LoadCreate_recreating(t) ==
    /\ threads[t].pc = "create_collection"
    /\ IF qdrant_client /\ backend_up
       THEN /\ collection_exists' = TRUE
            /\ points' = {}
            /\ threads' = [threads EXCEPT ![t].pc =
                             IF threads[t].args.force_reload
                             THEN "delete_collection" ELSE "index"]
       ELSE /\ UNCHANGED <<collection_exists, points>>
            /\ threads' = Finished(t, FALSE)
    /\ UNCHANGED <<qdrant_client, backend_up, embed, _vector_service,
                   similarity_threshold, op, args, ret, search_returned,
                   upsert_calls>>

\* lines 452-455: create_collection
LoadCreate(t) ==
    /\ threads[t].pc = "create_collection"
    /\ IF qdrant_client /\ backend_up
       THEN /\ collection_exists' = TRUE
            /\ threads' = [threads EXCEPT ![t].pc =
                             IF threads[t].args.force_reload
                             THEN "delete_collection" ELSE "index"]
       ELSE /\ UNCHANGED collection_exists
            /\ threads' = Finished(t, FALSE)
    /\ UNCHANGED <<qdrant_client, backend_up, points, embed, _vector_service,
                   similarity_threshold, op, args, ret, search_returned,
                   upsert_calls>>

\* variant: the collection is emptied of nothing
LoadDelete_kept(t) ==
    /\ threads[t].pc = "delete_collection"
    /\ threads' = [threads EXCEPT ![t].pc = "index",
                                  ![t].local.cleared = backend_up]
    /\ UNCHANGED <<qdrant_client, backend_up, collection_exists, points,
                   embed, _vector_service, similarity_threshold, op, args, ret,
                   search_returned, upsert_calls>>

\* lines 458-462 and clear_collection 141-146: delete_collection; when it
\* raises, clear_collection returns false and the load goes on
LoadDelete(t) ==
    /\ threads[t].pc = "delete_collection"
    /\ IF backend_up
       THEN /\ collection_exists' = FALSE
            /\ points' = {}
            /\ threads' = [threads EXCEPT ![t].pc = "recreate_collection"]
       ELSE /\ UNCHANGED <<collection_exists, points>>
            /\ threads' = [threads EXCEPT ![t].pc = "index"]
    /\ UNCHANGED <<qdrant_client, backend_up, embed, _vector_service, similarity_threshold,
                   op, args, ret, search_returned, upsert_calls>>

\* clear_collection 148-164: create_collection of the client, which raises
\* when the server is down or the collection is there again; cleared is
\* what clear_collection returns
LoadRecreate(t) ==
    /\ threads[t].pc = "recreate_collection"
    /\ collection_exists' = (backend_up \/ collection_exists)
    /\ threads' = [threads EXCEPT
                     ![t].pc = "index",
                     ![t].local.cleared = backend_up /\ ~collection_exists]
    /\ UNCHANGED <<qdrant_client, backend_up, points, embed, _vector_service,
                   similarity_threshold, op, args, ret, search_returned,
                   upsert_calls>>

\* lines 464-509: read the files, remove equal content, index_documents
LoadIndex(t) ==
    /\ threads[t].pc = "index"
    /\ LET all_documents == AllDocuments(threads[t].args.files, 1, <<>>)
           unique_docs == UniqueDocs(all_documents, 1, {}, <<>>)
           indexed == index_documents(unique_docs, backend_up)
           read == [threads EXCEPT ![t].local.files_read = TRUE]
       IN  IF all_documents = <<>>
           THEN /\ threads' = [read EXCEPT ![t].pc = "done",
                                           ![t].ret = Some(FALSE)]
                /\ UNCHANGED points
           ELSE IF \E i \in 1..Len(all_documents) : ~all_documents[i].is_dict
           THEN /\ threads' = [read EXCEPT ![t].pc = "done",
                                           ![t].ret = Some(FALSE)]
                /\ UNCHANGED points
           ELSE /\ Cardinality(indexed.points) <= MaxPoints
                /\ points' = indexed.points
                /\ threads' = [read EXCEPT
                                 ![t].pc = "done",
                                 ![t].ret = Some(indexed.ok),
                                 ![t].upserts = indexed.calls,
                                 ![t].local.indexed = <<unique_docs>>]
    /\ UNCHANGED <<qdrant_client, backend_up, collection_exists, embed, _vector_service,
                   similarity_threshold, op, args, ret, search_returned,
                   upsert_calls>>

\* the caller takes the result
ThreadReturn(t) ==
    /\ threads[t].pc \in Terminal
    /\ threads' = [threads EXCEPT ![t] = IdleThread]
    /\ UNCHANGED <<qdrant_client, backend_up, collection_exists, points,
                   embed, _vector_service, similarity_threshold, op, args, ret,
                   search_returned, upsert_calls>>

\* one load at a time, next to questions stored at run time
NextLoad ==
    \/ Return
    \/ BackendDown
    \/ BackendUp
    \/ \E q \in {<<"a">>, <<" ", "A", "?">>} :
          threads[1].pc = "idle" /\ StoreQuestion(q, <<"x">>)
    \/ \E d \in BOOLEAN, files \in Directories, f \in BOOLEAN :
          LoadBegin(1, d, files, f)
    \/ LoadCreate(1)
    \/ LoadDelete(1)
    \/ LoadRecreate(1)
    \/ LoadIndex(1)
    \/ ThreadReturn(1)

SpecLoad == InitIndex /\ [][NextLoad]_vars

-----------------------------------------------------------------------------
(* Failures: the server not answering, the client missing, model.encode
   raising on some texts, files that cannot be parsed; every public
   operation, one call at a time. *)

CollectionExistsAndHasData ==
    /\ op = "idle"
    /\ ret' = collection_exists_and_has_data
    /\ op' = "collection_exists_and_has_data" /\ args' = <<>>
    /\ search_returned' = <<>> /\ upsert_calls' = <<>>
    /\ UNCHANGED <<qdrant_client, backend_up, collection_exists, points,
                   embed, _vector_service, similarity_threshold, threads>>

LoadDataFromJson(file) ==
    /\ op = "idle"
    /\ ret' = load_data_from_json(file)
    /\ op' = "load_data_from_json" /\ args' = [file |-> file]
    /\ search_returned' = <<>> /\ upsert_calls' = <<>>
    /\ UNCHANGED <<qdrant_client, backend_up, collection_exists, points,
                   embed, _vector_service, similarity_threshold, threads>>

\* model.encode works or raises, on the texts with surrounding whitespace
\* and on the others
FailEmbeds ==
    { [t \in EmbedTexts |-> IF strip(t) = t THEN v ELSE w] :
        v \in {0, Raised}, w \in {0, Raised} }

InitFail ==
    /\ qdrant_client \in BOOLEAN
    /\ backend_up = TRUE
    /\ collection_exists \in BOOLEAN
    /\ points = {}
    /\ embed \in FailEmbeds
    /\ similarity_threshold = 85
    /\ _vector_service = None
    /\ op = "idle"
    /\ args = <<>>
    /\ ret = <<>>
    /\ search_returned = <<>>
    /\ upsert_calls = <<>>
    /\ threads = [t \in Threads |-> IdleThread]

\* one document, question or file at a time is enough to make a call fail
Single(S) == { x \in S : Len(x) <= 1 }

NextFail ==
    \/ BackendDown
    \/ BackendUp
    \/ /\ threads[1].pc = "idle"
       /\ \/ Return
          \/ \E q \in Texts : Search(q)
          \/ \E q \in Texts : CheckQuestionExists(q, None)
          \/ \E q \in Texts : StoreQuestion(q, <<"x">>)
          \/ \E q \in Texts, f \in BOOLEAN, u \in BOOLEAN :
                CheckAndStoreQuestion(q, <<"x">>, f, u)
          \/ \E docs \in Single(BatchData) : IndexDocuments(docs)
          \/ CreateCollection
          \/ \E u \in BOOLEAN : ClearCollection(u)
          \/ CollectionExistsAndHasData
          \/ \E file \in CorpusFiles : LoadDataFromJson(file)
          \/ \E questions_data \in Single(BatchData) :
                BatchCheckAndStore(questions_data)
          \/ \E u \in BOOLEAN : BatchItem(u)
          \/ \E d \in BOOLEAN, files \in Single(Directories), f \in BOOLEAN :
                LoadBegin(1, d, files, f)
    \/ LoadCreate(1)
    \/ LoadDelete(1)
    \/ LoadRecreate(1)
    \/ LoadIndex(1)
    \/ ThreadReturn(1)

SpecFail == InitFail /\ [][NextFail]_vars

-----------------------------------------------------------------------------
(* check_and_store_question step by step, for callers that run at the same
   time.  The pc of a call is its state: START on entry, SEARCHED once
   check_question_exists has returned, STORE_ATTEMPTED once the branch of
   line 200 is taken, and the state it returns in.  The query and the upsert
   are each one interaction with the server. *)

\* lines 181-188: the result record on entry
CasBegin(t, question, answer, force_store) ==
    /\ op = "idle"
    /\ threads[t].pc = "idle"
    /\ threads' =
         Started(t, [IdleThread EXCEPT
                       !.pc = "START",
                       !.args = [question |-> question, answer |-> answer,
                                 force_store |-> force_store],
                       !.local = [result |->
                                    [question |-> question,
                                     exists |-> FALSE,
                                     stored |-> FALSE,
                                     similar_question |-> None,
                                     similarity_score |-> 0,
                                     action_taken |-> "none"],
                                  answered |-> FALSE]])
    /\ UNCHANGED <<qdrant_client, backend_up, collection_exists, points,
                   embed, _vector_service, similarity_threshold, op, args, ret,
                   search_returned, upsert_calls>>

\* lines 191-197: check_question_exists and what it found; answered: the
\* server answered the query
CasSearch(t) ==
    /\ threads[t].pc = "START"
    /\ \E results \in search(threads[t].args.question, TopK, backend_up) :
          LET found == check_question_exists(results,
                                             threads[t].args.question, None)
              existing_data == found[2]
          IN  threads' =
                [threads EXCEPT
                   ![t].pc = "SEARCHED",
                   ![t].searches = Append(@, results),
                   ![t].local.answered =
                       /\ qdrant_client /\ backend_up /\ collection_exists
                       /\ generate_embedding(threads[t].args.question)
                            # Raised,
                   ![t].local.result =
                       [@ EXCEPT
                          !.exists = found[1],
                          !.similar_question =
                              IF existing_data # None
                              THEN Some(existing_data[1].question)
                              ELSE None,
                          !.similarity_score =
                              IF existing_data # None
                              THEN existing_data[1].similarity ELSE 0]]
    /\ UNCHANGED <<qdrant_client, backend_up, collection_exists, points,
                   embed, _vector_service, similarity_threshold, op, args, ret,
                   search_returned, upsert_calls>>

\* line 200 and the else branch of lines 211-214
CasDecide(t) ==
    /\ threads[t].pc = "SEARCHED"
    /\ LET result == threads[t].local.result
       IN  threads' =
             IF ShouldStore(result.exists, threads[t].args.force_store)
             THEN [threads EXCEPT ![t].pc = "STORE_ATTEMPTED"]
             ELSE [threads EXCEPT
                     ![t].pc = "SKIPPED",
                     ![t].ret =
                         Some([result EXCEPT
                                 !.action_taken = "skipped_similar_exists"])]
    /\ UNCHANGED <<qdrant_client, backend_up, collection_exists, points,
                   embed, _vector_service, similarity_threshold, op, args, ret,
                   search_returned, upsert_calls>>

\* lines 201-210: store_question and the tag of its outcome
CasStore(t) ==
    /\ threads[t].pc = "STORE_ATTEMPTED"
    /\ LET result == threads[t].local.result
           stored == store_question(threads[t].args.question,
                                    threads[t].args.answer, backend_up)
       IN  /\ Cardinality(stored.points) <= MaxPoints
           /\ points' = stored.points
           /\ threads' =
                [threads EXCEPT
                   ![t].pc = IF stored.ok THEN "STORED" ELSE "STORE_FAILED",
                   ![t].upserts = @ \o stored.calls,
                   ![t].ret =
                       Some([result EXCEPT
                               !.stored = stored.ok,
                               !.action_taken =
                                   StoreOutcome(result.exists,
                                                threads[t].args.force_store,
                                                stored.ok)])]
    /\ UNCHANGED <<qdrant_client, backend_up, collection_exists, embed, _vector_service,
                   similarity_threshold, op, args, ret, search_returned,
                   upsert_calls>>

\* the questions of the concurrent callers: two that match, and a blank one
ConcQuestions == { <<"a">>, <<" ", "A", "?">>, <<" ">> }

\* their answers: the same up to surrounding whitespace
ConcAnswers == { <<"x">>, <<"x", " ">> }

NextConc ==
    \/ BackendDown
    \/ BackendUp
    \/ \E t \in Threads, q \in ConcQuestions, a \in ConcAnswers,
          f \in BOOLEAN :
          CasBegin(t, q, a, f)
    \/ \E t \in Threads : CasSearch(t)
    \/ \E t \in Threads : CasDecide(t)
    \/ \E t \in Threads : CasStore(t)
    \/ \E t \in Threads : ThreadReturn(t)

SpecConc == InitBatch /\ [][NextConc]_vars

-----------------------------------------------------------------------------
(* Loads requested at the same time: force_reindex is served by whichever
   request arrives, and nothing keeps two loads apart. *)

\* data directories of one file
ReloadDirectories == { files \in Directories : Len(files) = 1 }

\* those whose file is a .json file of documents, or one that cannot be read
ReloadCorpora ==
    { files \in ReloadDirectories :
        files[1].name_json /\ files[1].kind # "other" }

NextReload ==
    \/ Return
    \/ \E q \in {<<" ", "A", "?">>} :
          /\ \A t \in Threads : ~Running(threads[t])
          /\ StoreQuestion(q, <<"x">>)
    \/ \E t \in Threads, d \in BOOLEAN, files \in ReloadCorpora,
          f \in BOOLEAN :
          LoadBegin(t, d, files, f)
    \/ \E t \in Threads : LoadCreate(t)
    \/ \E t \in Threads : LoadDelete(t)
    \/ \E t \in Threads : LoadRecreate(t)
    \/ \E t \in Threads : LoadIndex(t)
    \/ \E t \in Threads : ThreadReturn(t)

SpecReload == InitIndex /\ [][NextReload]_vars

-----------------------------------------------------------------------------
(* QuestionUpdationService.update_similarity_threshold; thresholds are in
   hundredths, as the similarities are *)

\* variant: the bounds are left out of the range
ThresholdInRange_exclusive(new_threshold) ==
    0 < new_threshold /\ new_threshold < 100

\* line 279: 0.0 <= new_threshold <= 1.0
ThresholdInRange(new_threshold) ==
    0 <= new_threshold /\ new_threshold <= 100

UpdateSimilarityThreshold(new_threshold) ==
    /\ op = "idle"
    /\ IF ThresholdInRange(new_threshold)
       THEN similarity_threshold' = new_threshold /\ ret' = TRUE
       ELSE UNCHANGED similarity_threshold /\ ret' = FALSE
    /\ op' = "update_similarity_threshold"
    /\ args' = [new_threshold |-> new_threshold]
    /\ search_returned' = <<>> /\ upsert_calls' = <<>>
    /\ UNCHANGED <<qdrant_client, backend_up, collection_exists, points,
                   embed, _vector_service, threads>>

\* values passed as new_threshold: around both bounds and around the
\* similarity of two different vectors
NewThresholds == {0 - 1, 0, 44, 45, 100, 101}

NextThreshold ==
    \/ Return
    \/ \E x \in NewThresholds : UpdateSimilarityThreshold(x)
    \/ \E q \in Texts : StoreQuestion(q, <<"x">>)
    \/ \E q \in Texts, t \in {None, Some(44)} : CheckQuestionExists(q, t)
    \/ \E q \in Texts, f \in BOOLEAN :
          CheckAndStoreQuestion(q, <<"x">>, f, TRUE)

SpecThreshold == InitBatch /\ [][NextThreshold]_vars

-----------------------------------------------------------------------------
(* A collection of more points than a search returns *)

\* documents indexed beforehand: one more than a search returns, the last
\* with the normalized text of the question "a"
SeedDocuments ==
    [i \in 1..(TopK + 1) |->
        IF i <= TopK
        THEN [question |-> <<"b">>, answer |-> <<Digits[i + 1]>>]
        ELSE [question |-> <<"A", "?">>, answer |-> <<"x">>]]

\* all of them, or all but the first
SeedCorpora == { SubSeq(SeedDocuments, k, TopK + 1) : k \in {1, 2} }

\* "A?" is embedded away from "a"; "b" is free
TopEmbeds ==
    { e \in [EmbedTexts -> Vectors] :
        /\ e[<<"a">>] = 0 /\ e[<<" ", "A", "?">>] = 0 /\ e[<<" ">>] = 0
        /\ e[<<"A", "?">>] = 1 }

\* the service on a healthy backend after index_documents of a seed corpus
InitTop ==
    /\ qdrant_client = TRUE
    /\ backend_up = TRUE
    /\ collection_exists = TRUE
    /\ embed \in TopEmbeds
    /\ points \in { QdrantUpsert({}, CollectPoints(docs, 1, {}, <<>>)) :
                      docs \in SeedCorpora }
    /\ similarity_threshold = 85
    /\ _vector_service = None
    /\ op = "idle"
    /\ args = <<>>
    /\ ret = <<>>
    /\ search_returned = <<>>
    /\ upsert_calls = <<>>
    /\ threads = [t \in Threads |-> IdleThread]

\* check_and_store_question while the server answers
CheckAndStoreAmongMany(question, answer, force_store) ==
    /\ op = "idle"
    /\ \E results \in search(question, TopK, backend_up) :
          LET done == check_and_store_question(results, question, answer,
                                               force_store, backend_up)
          IN  /\ points' = done.points
              /\ ret' = done.result
              /\ upsert_calls' = done.calls
              /\ search_returned' = <<results>>
    /\ op' = "check_and_store_question"
    /\ args' = [question |-> question, answer |-> answer,
                force_store |-> force_store]
    /\ UNCHANGED <<qdrant_client, backend_up, collection_exists, embed, _vector_service,
                   similarity_threshold, threads>>

NextTop ==
    \/ Return
    \/ \E q \in {<<"a">>, <<" ", "A", "?">>} : CheckQuestionExists(q, None)
    \/ \E q \in {<<"a">>, <<" ", "A", "?">>} :
          CheckAndStoreAmongMany(q, <<"x">>, FALSE)

SpecTop == InitTop /\ [][NextTop]_vars

-----------------------------------------------------------------------------
(* One caller of check_and_store_question at a time, the server going down
   and up between the search and the store *)

InitSeq ==
    /\ Init
    /\ embed \in TopEmbeds

NextSeq ==
    \/ BackendDown
    \/ BackendUp
    \/ \E q \in Texts, f \in BOOLEAN : CasBegin(1, q, <<"x">>, f)
    \/ CasSearch(1)
    \/ CasDecide(1)
    \/ CasStore(1)
    \/ ThreadReturn(1)

SpecSeq == InitSeq /\ [][NextSeq]_vars

-----------------------------------------------------------------------------
(* The module's global service and the routes /vector/search and
   /vector/status (vector_search/routes.py).  QdrantVectorService() itself
   succeeds; qdrant_client tells whether it got a client. *)

\* what get_qdrant_service returns: None, or the service
get_qdrant_service ==
    IF _vector_service = None
    THEN IF qdrant_client THEN Some("QdrantVectorService") ELSE None
    ELSE _vector_service

\* load_all_data_files(force_reload=False) as one call: its return value,
\* and the collection afterwards
load_all_data_files(dir_exists, files) ==
    LET all_documents == AllDocuments(files, 1, <<>>)
        unique_docs == UniqueDocs(all_documents, 1, {}, <<>>)
        batch == CollectPoints(unique_docs, 1, {}, <<>>)
        unchanged == [ok |-> FALSE, exists |-> collection_exists,
                      points |-> points]
    IN  IF ~dir_exists THEN unchanged
        ELSE IF collection_exists_and_has_data
        THEN [unchanged EXCEPT !.ok = TRUE]
        ELSE IF ~(qdrant_client /\ backend_up) THEN unchanged
        ELSE IF all_documents = <<>>
        THEN [unchanged EXCEPT !.exists = TRUE]
        ELSE IF \E i \in 1..Len(all_documents) : ~all_documents[i].is_dict
        THEN [unchanged EXCEPT !.exists = TRUE]
        ELSE IF batch = <<>>
                  \/ \E k \in 1..Len(batch) : batch[k].vector = Raised
        THEN [unchanged EXCEPT !.exists = TRUE]
        ELSE [ok |-> TRUE, exists |-> TRUE,
              points |-> QdrantUpsert(points, batch)]

auto_initialize_if_needed(dir_exists, files) ==
    IF collection_exists_and_has_data
    THEN [ok |-> TRUE, exists |-> collection_exists, points |-> points]
    ELSE load_all_data_files(dir_exists, files)

\* search_vectors up to its search: lines 45-61
SearchVectors(t, text, dir_exists, files) ==
    /\ op = "idle"
    /\ threads[t].pc = "idle"
    /\ _vector_service' = Some("QdrantVectorService")
    /\ LET service == get_qdrant_service
           auto == auto_initialize_if_needed(dir_exists, files)
           begun == [IdleThread EXCEPT !.args = [route |-> "/vector/search",
                                                 text |-> text]]
       IN  IF service = None
           THEN /\ threads' =
                     Started(t, [begun EXCEPT
                        !.pc = "done",
                        !.ret = Some([status_code |-> 500,
                                      detail |->
                                        "Vector service not available"])])
                /\ UNCHANGED <<collection_exists, points>>
           ELSE IF collection_exists_and_has_data
           THEN /\ threads' = Started(t, [begun EXCEPT !.pc = "search"])
                /\ UNCHANGED <<collection_exists, points>>
           ELSE /\ collection_exists' = auto.exists
                /\ points' = auto.points
                /\ threads' =
                     IF auto.ok
                     THEN Started(t, [begun EXCEPT !.pc = "search"])
                     ELSE Started(t, [begun EXCEPT
                             !.pc = "done",
                             !.ret = Some([status_code |-> 500,
                                           detail |->
                                 "Failed to initialize vector database"])])
    /\ UNCHANGED <<qdrant_client, backend_up, embed, similarity_threshold,
                   op, args, ret, search_returned, upsert_calls>>

\* search_vectors, lines 63-72: the search and the response
SearchVectorsRespond(t) ==
    /\ threads[t].pc = "search"
    /\ \E results \in search(threads[t].args.text, TopK, backend_up) :
          threads' = [threads EXCEPT
                        ![t].pc = "done",
                        ![t].searches = Append(@, results),
                        ![t].ret = Some([status_code |-> 200,
                                         results |-> results,
                                         total_found |-> Len(results)])]
    /\ UNCHANGED <<qdrant_client, backend_up, collection_exists, points,
                   embed, _vector_service, similarity_threshold, op, args,
                   ret, search_returned, upsert_calls>>

\* get_status: "unavailable" without a service, else "active" with what
\* get_collection_info gives
GetStatus(t) ==
    /\ op = "idle"
    /\ threads[t].pc = "idle"
    /\ _vector_service' = Some("QdrantVectorService")
    /\ threads' =
         Started(t, [IdleThread EXCEPT
            !.args = [route |-> "/vector/status"],
            !.pc = "done",
            !.ret = Some([status |-> IF get_qdrant_service = None
                                     THEN "unavailable" ELSE "active"])])
    /\ UNCHANGED <<qdrant_client, backend_up, collection_exists, points,
                   embed, similarity_threshold, op, args, ret,
                   search_returned, upsert_calls>>

\* requests one at a time, next to questions stored at run time and a
\* server that goes down and up
NextRoutes ==
    \/ Return
    \/ BackendDown
    \/ BackendUp
    \/ \E q \in {<<"a">>, <<" ", "A", "?">>} :
          threads[1].pc = "idle" /\ StoreQuestion(q, <<"x">>)
    \/ \E q \in Texts, d \in BOOLEAN, files \in ReloadDirectories :
          SearchVectors(1, q, d, files)
    \/ SearchVectorsRespond(1)
    \/ GetStatus(1)
    \/ ThreadReturn(1)

SpecRoutes == InitIndex /\ [][NextRoutes]_vars

-----------------------------------------------------------------------------
(* Properties of check_and_store_question and check_question_exists *)

ActionTags ==
    {"stored_new_question", "stored_despite_similarity",
     "skipped_similar_exists", "storage_failed", "error"}

StoredTags == {"stored_new_question", "stored_despite_similarity"}

ResultKeys ==
    {"question", "exists", "stored", "similar_question", "similarity_score",
     "action_taken"}

IsCheckAndStore == op = "check_and_store_question"
IsExists == op = "check_question_exists"

\* the upsert the operation issued was carried out by the server
UpsertDone == upsert_calls # <<>> /\ backend_up /\ collection_exists

PointIds(S) == { p.id : p \in S }

\* the points that hold the stripped (question, answer)
PointsOf(S, question, answer) ==
    { p \in S : p.question = strip(question) /\ p.answer = strip(answer) }

\* C1: every result record of check_and_store_question carries one of the
\* five action tags, never the placeholder "none", and the tag is the one of
\* the branch taken: no match and the store succeeded - stored_new_question;
\* match, force_store and the store succeeded - stored_despite_similarity;
\* match and no force_store - skipped_similar_exists; a store attempted that
\* failed - storage_failed; 'stored' is true exactly for the two stored tags.
C1_ActionTagOfBranch ==
    IsCheckAndStore =>
      LET attempted == ~ret.exists \/ args.force_store
      IN  /\ ret.action_taken \in ActionTags
          /\ ret.action_taken # "none"
          /\ (~ret.exists /\ UpsertDone)
                => ret.action_taken = "stored_new_question"
          /\ (ret.exists /\ args.force_store /\ UpsertDone)
                => ret.action_taken = "stored_despite_similarity"
          /\ (ret.exists /\ ~args.force_store)
                => ret.action_taken = "skipped_similar_exists"
          /\ (attempted /\ ~UpsertDone)
                => ret.action_taken = "storage_failed"
          /\ ret.stored <=> ret.action_taken \in StoredTags

C1_Witness ==
    /\ IsCheckAndStore
    /\ ret.exists /\ args.force_store /\ upsert_calls # <<>>
    /\ ret.action_taken = "storage_failed"

\* C2: a check_and_store_question call without force_store whose existence
\* check reports a match issues no upsert and leaves the points of the
\* collection as they were.
C2_SkipStoresNothing ==
    [][ (op' = "check_and_store_question" /\ op = "idle"
         /\ ~args'.force_store /\ ret'.exists)
           => (upsert_calls' = <<>> /\ points' = points) ]_vars

C2_Witness ==
    /\ IsCheckAndStore
    /\ ~args.force_store /\ ret.exists
    /\ strip(args.question) # <<>>
    /\ PointsOf(points, args.question, args.answer) = {}

\* what the claims call the normalised text, stated on positions: the text
\* in lower case between its first and last non-blank character, cut after
\* its last character that is not trailing punctuation, blanks at the cut
\* removed
Between(s, keep) ==
    LET kept == { i \in 1..Len(s) : s[i] \notin keep }
    IN  IF kept = {} THEN <<>>
        ELSE SubSeq(s, CHOOSE i \in kept : \A j \in kept : i <= j,
                       CHOOSE i \in kept : \A j \in kept : i >= j)

UpToLast(s, drop) ==
    LET kept == { i \in 1..Len(s) : s[i] \notin drop }
    IN  IF kept = {} THEN <<>>
        ELSE SubSeq(s, 1, CHOOSE i \in kept : \A j \in kept : i >= j)

NormalText(t) ==
    LET inner == Between(t, {" "})
        lowered == [i \in 1..Len(inner) |->
                      IF inner[i] \in {"A", "B", "X"}
                      THEN CASE inner[i] = "A" -> "a"
                             [] inner[i] = "B" -> "b"
                             [] OTHER -> "x"
                      ELSE inner[i]]
    IN  Between(UpToLast(lowered, {"?", ".", "!"}), {" "})

\* the service has its client, the collection is present and the server
\* answers
Healthy == qdrant_client /\ collection_exists /\ backend_up

\* C3: on a healthy backend, check_and_store_question(q, a) with a question
\* that is not empty once trimmed, run on a collection that holds no points,
\* returns stored_new_question and leaves a point for q; while that point is
\* there (points leave the collection only by a clear), every non-forced
\* check_and_store_question with the same text q returns
\* skipped_similar_exists with exists = true and changes no point.
C3_StoreOnceThenSkip ==
    [][ /\ (op = "idle" /\ op' = "check_and_store_question" /\ Healthy
            /\ strip(args'.question) # <<>>)
          => /\ (points = {} /\ backend_up')
                  => /\ ret'.action_taken = "stored_new_question"
                     /\ \E p \in points' :
                           p.question = strip(args'.question)
             /\ (~args'.force_store
                 /\ \E p \in points : p.question = strip(args'.question))
                  => /\ ret'.action_taken = "skipped_similar_exists"
                     /\ ret'.exists
                     /\ points' = points
        /\ (op' # "clear_collection") => points \subseteq points' ]_vars

C3_Witness ==
    /\ IsCheckAndStore /\ Healthy
    /\ ~args.force_store
    /\ args.question # strip(args.question)
    /\ ret.action_taken = "skipped_similar_exists"
    /\ ret.similarity_score < similarity_threshold
    /\ Cardinality(points) = 1

\* the results the existence check of the operation got from search
Results == search_returned[1]

\* C4: check_question_exists compares inclusively and with the threshold it
\* was passed (0 included), the service default only when none was passed:
\* it looks at no more than 5 results; if one of them has a similarity at or
\* above the threshold it returns (true, the first such result in rank
\* order); if all are below it and none has the normalised text of the query
\* it returns (false, None).
C4_ThresholdInclusive ==
    IsExists =>
      LET thr == IF args.threshold = None THEN similarity_threshold
                 ELSE args.threshold[1]
          hit == { i \in 1..Len(Results) : Results[i].similarity >= thr }
      IN  /\ Len(Results) <= 5
          /\ hit # {} =>
                \E i \in hit :
                   /\ \A j \in hit : i <= j
                   /\ ret = <<TRUE, Some(Results[i])>>
          /\ (hit = {}
              /\ \A i \in 1..Len(Results) :
                    NormalText(Results[i].question) # NormalText(args.question))
                => ret = <<FALSE, None>>

C4_Witness ==
    /\ IsExists
    /\ args.threshold # None
    /\ args.threshold[1] # similarity_threshold
    /\ Len(Results) >= 2
    /\ ret[1]
    /\ ret[2][1].similarity = args.threshold[1]
    /\ ret[2][1].rank = 1

\* C5: when no result reaches the threshold but some result has the
\* normalised text of the query (lower case, surrounding whitespace and
\* trailing '?', '.', '!' removed), check_question_exists returns (true, the
\* first such result); a result that reaches the threshold is always
\* preferred to one that only has the same normalised text.
C5_NormalizedFallback ==
    IsExists =>
      LET thr == IF args.threshold = None THEN similarity_threshold
                 ELSE args.threshold[1]
          same == { i \in 1..Len(Results) :
                      NormalText(Results[i].question)
                        = NormalText(args.question) }
      IN  /\ ((\A i \in 1..Len(Results) : Results[i].similarity < thr)
              /\ same # {})
                => \E i \in same :
                      /\ \A j \in same : i <= j
                      /\ ret = <<TRUE, Some(Results[i])>>
          /\ (\E i \in 1..Len(Results) : Results[i].similarity >= thr)
                => ret[1] /\ ret[2][1].similarity >= thr

C5_Witness ==
    /\ IsExists
    /\ ret[1]
    /\ ret[2][1].similarity < similarity_threshold
    /\ args.threshold = None
    /\ ret[2][1].question # strip(args.question)
    /\ ret[2][1].rank = 2

\* C6: while the backend is unreachable (the service has no client, or the
\* server answers no call) search returns the empty list,
\* check_question_exists returns (false, None) and
\* check_and_store_question returns a complete result record with
\* exists = false, stored = false and action_taken = storage_failed.
C6_UnreachableDefaults ==
    [][ (op = "idle" /\ (~qdrant_client \/ ~backend_up))
          => /\ op' = "search" => ret' = <<>>
             /\ op' = "check_question_exists" => ret' = <<FALSE, None>>
             /\ op' = "check_and_store_question"
                  => /\ DOMAIN ret' = ResultKeys
                     /\ ret'.question = args'.question
                     /\ ret'.exists = FALSE
                     /\ ret'.stored = FALSE
                     /\ ret'.similar_question = None
                     /\ ret'.similarity_score = 0
                     /\ ret'.action_taken = "storage_failed" ]_vars

C6_Witness ==
    /\ IsCheckAndStore
    /\ qdrant_client /\ ~backend_up
    /\ \E p \in points : p.question = strip(args.question)
    /\ ~ret.exists
    /\ upsert_calls # <<>>
    /\ ret.action_taken = "storage_failed"

\* C7: on a healthy backend, check_and_store_question(q, a) with force_store
\* on a collection that holds the point of (q, a) returns
\* stored_despite_similarity with exists = true and stored = true, and the
\* upsert overwrites: afterwards the collection holds exactly one point for
\* (q, a), the same point ids and the same number of points as before.
C7_ForcedStoreOverwrites ==
    [][ (op = "idle" /\ op' = "check_and_store_question"
         /\ args'.force_store /\ Healthy /\ backend_up'
         /\ PointsOf(points, args'.question, args'.answer) # {})
          => /\ ret'.action_taken = "stored_despite_similarity"
             /\ ret'.exists /\ ret'.stored
             /\ Cardinality(PointsOf(points', args'.question, args'.answer)) = 1
             /\ Cardinality(points') = Cardinality(points)
             /\ PointIds(points') = PointIds(points) ]_vars

C7_Witness ==
    /\ IsCheckAndStore /\ Healthy
    /\ args.force_store
    /\ ret.action_taken = "stored_despite_similarity"
    /\ Cardinality(points) = 2
    /\ Cardinality(PointsOf(points, args.question, args.answer)) = 1

-----------------------------------------------------------------------------
(* Properties of index_documents *)

IsIndex == op = "index_documents"

\* the content id that the claims give the document at position i: the hash
\* of its trimmed question, the separator and its trimmed answer
ContentIdAt(documents, i) ==
    Md5Hex(Between(documents[i].question, {" "}) \o <<"|">>
             \o Between(documents[i].answer, {" "}))

\* the positions of the documents whose question is not blank
ValidAt(documents) ==
    { i \in 1..Len(documents) : Between(documents[i].question, {" "}) # <<>> }

\* C8: index_documents (of a service that has its client) issues at most one
\* upsert; when some document has a non-blank question the upsert carries
\* exactly one point per distinct content id among those documents, each
\* built from the first document of that id, and blank questions do not make
\* the batch fail; when no document is valid it returns false and issues no
\* upsert.
C8_OnePointPerId ==
    IsIndex =>
      LET docs == args.documents
          valid == ValidAt(docs)
      IN  /\ Len(upsert_calls) <= 1
          /\ valid = {} => (ret = FALSE /\ upsert_calls = <<>>)
          /\ (valid # {} /\ qdrant_client) =>
               /\ Len(upsert_calls) = 1
               /\ LET batch == upsert_calls[1]
                  IN  /\ \A k, m \in 1..Len(batch) :
                            k # m => batch[k].id # batch[m].id
                      /\ { batch[k].id : k \in 1..Len(batch) }
                           = { ContentIdAt(docs, i) : i \in valid }
                      /\ \A k \in 1..Len(batch) :
                            LET first == batch[k].source_index + 1
                            IN  /\ first \in valid
                                /\ ContentIdAt(docs, first) = batch[k].id
                                /\ \A i \in valid :
                                      ContentIdAt(docs, i) = batch[k].id
                                        => first <= i
                                /\ batch[k].question
                                     = Between(docs[first].question, {" "})
                                /\ batch[k].answer
                                     = Between(docs[first].answer, {" "})
               /\ Healthy => ret = TRUE

C8_Witness ==
    /\ IsIndex /\ Healthy
    /\ Len(args.documents) = 2
    /\ Cardinality(ValidAt(args.documents)) = 2
    /\ args.documents[1] # args.documents[2]
    /\ Len(upsert_calls) = 1
    /\ Len(upsert_calls[1]) = 1
    /\ ret = TRUE

PairSet(documents) ==
    { <<documents[i].question, documents[i].answer>> :
        i \in 1..Len(documents) }

\* C9: indexing is idempotent: once index_documents has run on a batch,
\* running it again on that batch, or on any batch with the same set of
\* (question, answer) pairs, leaves the set of point ids as it is; and the
\* collection never holds two points of the same (question, answer).
C9_IndexIdempotent ==
    /\ IsIndex =>
         \A again \in Batches :
            PairSet(again) = PairSet(args.documents)
              => PointIds(index_documents(again, backend_up).points)
                   = PointIds(points)
    /\ \A p1, p2 \in points :
          (p1.question = p2.question /\ p1.answer = p2.answer) => p1 = p2

C9_Witness ==
    /\ IsIndex /\ Healthy /\ ret = TRUE
    /\ Len(args.documents) = 2
    /\ Cardinality(PairSet(args.documents)) = 2
    /\ Cardinality(points) = 3
    /\ \E p \in points : p.source_index = 1

-----------------------------------------------------------------------------
(* Properties of the content ids *)

Trimmed(text) == Between(text, {" "})

TrimmedPair(doc) == <<Trimmed(doc.question), Trimmed(doc.answer)>>

\* a batch of two documents with non-blank questions has been indexed
IndexedTwo ==
    /\ IsIndex
    /\ Len(args.documents) = 2
    /\ Trimmed(args.documents[1].question) # <<>>
    /\ Trimmed(args.documents[2].question) # <<>>

\* C10, as amended: the id of a document is a function of its trimmed
\* (question, answer) pair, case included: two documents with the same
\* trimmed pair share one point, and two documents whose trimmed pairs
\* differ, and whose questions hold no "|", are stored as two points of
\* different ids.
C10_IdOfTrimmedPair ==
    IndexedTwo =>
      LET d1 == args.documents[1]
          d2 == args.documents[2]
      IN  /\ ret = TRUE
          /\ TrimmedPair(d1) = TrimmedPair(d2)
               => Cardinality(points) = 1
          /\ ( /\ TrimmedPair(d1) # TrimmedPair(d2)
               /\ \A i \in 1..Len(d1.question) : d1.question[i] # "|"
               /\ \A i \in 1..Len(d2.question) : d2.question[i] # "|" )
               => /\ Cardinality(points) = 2
                  /\ Cardinality(PointIds(points)) = 2

\* two documents that differ only in the case of a letter, kept apart
C10_Witness ==
    /\ IndexedTwo
    /\ args.documents[1].question = <<"a">>
    /\ args.documents[2].question = <<"A">>
    /\ args.documents[1].answer = args.documents[2].answer
    /\ Cardinality(PointIds(points)) = 2

\* C10, as stated: any two documents whose (question, answer) pairs differ
\* get different ids and are stored as separate points.
C10_DistinctPairsDistinctIds ==
    ( /\ IndexedTwo
      /\ <<args.documents[1].question, args.documents[1].answer>>
           # <<args.documents[2].question, args.documents[2].answer>> )
      => /\ Cardinality(points) = 2
         /\ Cardinality(PointIds(points)) = 2

-----------------------------------------------------------------------------
(* Properties of store_question on blank questions *)

IsBlank(text) == Trimmed(text) = <<>>

\* C11: store_question with a question that is blank after trimming returns
\* false, issues no upsert and leaves the points as they are; so does every
\* check_and_store_question with such a question, forced or not, and every
\* item of a batch_check_and_store with such a question, whatever the
\* collection holds.
C11_BlankQuestionStoresNothing ==
    [][ /\ (op = "idle" /\ op' = "store_question" /\ IsBlank(args'.question))
          => (ret' = FALSE /\ upsert_calls' = <<>> /\ points' = points)
        /\ (op = "idle" /\ op' = "check_and_store_question"
              /\ IsBlank(args'.question))
          => (ret'.stored = FALSE /\ upsert_calls' = <<>>
                /\ points' = points)
        /\ (op = "batch_check_and_store" /\ op' = op
              /\ IsBlank(args.questions_data[Len(ret')].question))
          => (ret'[Len(ret')].result.stored = FALSE
                /\ upsert_calls' = upsert_calls /\ points' = points)
      ]_vars

\* a batch on a healthy, non-empty collection has gone over a blank question
\* which the search matched with nothing, and over a non-blank one it stored
C11_Witness ==
    /\ op = "batch_check_and_store" /\ Healthy
    /\ Len(ret) = 2
    /\ IsBlank(args.questions_data[1].question)
    /\ ret[1].result.action_taken = "storage_failed"
    /\ ret[2].result.action_taken = "stored_new_question"
    /\ Cardinality(points) = 2

-----------------------------------------------------------------------------
(* Properties of load_all_data_files *)

\* the step in which thread 1 begins a load
BeginsLoad == threads[1].pc = "idle" /\ threads'[1].pc # "idle"

\* what hasData reports: the server answers, the collection is there and it
\* holds a point
HasData == qdrant_client /\ backend_up /\ collection_exists /\ points # {}

\* the load ends in the step it begins in, having read no file and having
\* left the collection and its points alone
LoadDoneUntouched ==
    /\ threads'[1].pc = "done"
    /\ threads'[1].local.files_read = FALSE
    /\ threads'[1].local.indexed = <<>>
    /\ threads'[1].upserts = <<>>
    /\ collection_exists' = collection_exists
    /\ points' = points

\* C12, as amended: a load without force_reload that finds data returns at
\* once, without reading a file, creating or clearing the collection or
\* upserting; it returns true when the directory exists and false when it
\* does not.
C12_ShortCutWhenData ==
    [][ (BeginsLoad /\ HasData /\ ~threads'[1].args.force_reload)
          => /\ LoadDoneUntouched
             /\ threads'[1].ret = Some(threads'[1].args.dir_exists) ]_vars

C12_Witness ==
    /\ threads[1].pc = "done"
    /\ threads[1].ret = Some(TRUE)
    /\ ~threads[1].args.force_reload
    /\ threads[1].args.files # <<>>
    /\ threads[1].local.files_read = FALSE
    /\ HasData

\* C12, as stated: such a load returns true for every directory argument.
C12_ShortCutForEveryDir ==
    [][ (BeginsLoad /\ HasData /\ ~threads'[1].args.force_reload)
          => /\ LoadDoneUntouched
             /\ threads'[1].ret = Some(TRUE) ]_vars

\* the step in which thread 1 reads the files and indexes them
IndexesCorpus == threads[1].pc = "index" /\ threads'[1].pc = "done"

\* the items of the .json files that json.load could read
CorpusItems(files) ==
    UNION { { files[i].data[k] : k \in 1..Len(files[i].data) } :
              i \in { n \in 1..Len(files) :
                        files[n].name_json /\ files[n].kind # "raises" } }

\* the trimmed (question, answer) pairs of the corpus with a question
CorpusPairs(files) ==
    { TrimmedPair(d) : d \in { c \in CorpusItems(files) :
                                 c.is_dict /\ ~IsBlank(c.question) } }

\* the collection holds one point for each of the pairs and no other point
HoldsExactly(stored, pairs) ==
    /\ Cardinality(stored) = Cardinality(pairs)
    /\ \A pair \in pairs :
          \E p \in stored : p.question = pair[1] /\ p.answer = pair[2]

\* C13: when a load gets to its indexing step on an empty collection of a
\* healthy backend, and the files hold at least one item and only JSON
\* objects, it calls index_documents exactly once, with the documents of
\* all files less those whose trimmed (question, answer) an earlier one
\* has; the collection then holds exactly one point for each distinct
\* trimmed pair with a non-blank question; and the load returns true when
\* that call upserted and false when no document had a question.
C13_LoadMergesAndDedups ==
    [][ ( /\ IndexesCorpus
          /\ points = {} /\ Healthy
          /\ CorpusItems(threads[1].args.files) # {}
          /\ \A c \in CorpusItems(threads[1].args.files) : c.is_dict )
        => LET files == threads[1].args.files
               calls == threads'[1].local.indexed
           IN  /\ threads[1].local.indexed = <<>>
               /\ Len(calls) = 1
               /\ \A i, j \in 1..Len(calls[1]) :
                     i # j => TrimmedPair(calls[1][i])
                                # TrimmedPair(calls[1][j])
               /\ { calls[1][i] : i \in 1..Len(calls[1]) }
                     \subseteq CorpusItems(files)
               /\ { TrimmedPair(calls[1][i]) : i \in 1..Len(calls[1]) }
                     = { TrimmedPair(c) : c \in CorpusItems(files) }
               /\ HoldsExactly(points', CorpusPairs(files))
               /\ Len(threads'[1].upserts) <= 1
               /\ threads'[1].ret = Some(CorpusPairs(files) # {})
               /\ threads'[1].ret = Some(Len(threads'[1].upserts) = 1)
      ]_vars

\* three documents in two files, one pair twice, end as two points
C13_Witness ==
    /\ threads[1].pc = "done"
    /\ threads[1].ret = Some(TRUE)
    /\ Len(threads[1].args.files) = 2
    /\ Len(threads[1].args.files[1].data)
         + Len(threads[1].args.files[2].data) = 3
    /\ Len(threads[1].local.indexed) = 1
    /\ Len(threads[1].local.indexed[1]) = 2
    /\ Cardinality(points) = 2

\* thread 1 has finished a forced load that returned true
ReloadedTrue ==
    /\ threads[1].pc = "done"
    /\ threads[1].args.force_reload
    /\ threads[1].ret = Some(TRUE)

ListFiles(files) ==
    { n \in 1..Len(files) :
        files[n].name_json /\ files[n].kind \in {"list", "questions"} }

\* the trimmed pairs of their documents that have a question
ListedPairs(files) ==
    UNION { { TrimmedPair(files[n].data[k]) :
                k \in { j \in 1..Len(files[n].data) :
                          ~IsBlank(files[n].data[j].question) } } :
            n \in ListFiles(files) }

\* C15, as stated: a file that is not a list of documents (it cannot be
\* read or parsed, or its JSON has another shape) does not stop the load:
\* on a healthy backend the load indexes every document with a question of
\* the other files and returns true.
C15_BadFileDoesNotStopLoad ==
    [][ ( /\ IndexesCorpus /\ Healthy
          /\ ListedPairs(threads[1].args.files) # {} )
        => /\ threads'[1].ret = Some(TRUE)
           /\ \A pair \in ListedPairs(threads[1].args.files) :
                 \E p \in points' :
                    p.question = pair[1] /\ p.answer = pair[2]
      ]_vars

-----------------------------------------------------------------------------
(* Properties of the operations when a call they make fails *)

\* a call to the server by the operation that starts now gets no answer
Unanswered == ~qdrant_client \/ ~backend_up

\* model.encode raises on the text
EncodeFails(text) == embed[text] = Raised

\* model.encode raises on the question as index_documents would embed it
StoreEncodeFails(question) ==
    ~IsBlank(question) /\ embed[Trimmed(question)] = Raised

\* the operation that starts in this step
Calls(name) == op = "idle" /\ op' = name

\* a complete result record of check_and_store_question for a call whose
\* search failed (searched) and whose store, if it came to one, failed
DefaultRecord(record, question, searched, stored) ==
    /\ DOMAIN record = ResultKeys
    /\ record.question = question
    /\ record.action_taken \in ActionTags
    /\ ~searched => /\ record.exists = FALSE
                    /\ record.similar_question = None
                    /\ record.similarity_score = 0
    /\ ~stored => /\ record.stored = FALSE
                  /\ record.action_taken
                       \in {"storage_failed", "skipped_similar_exists"}

\* every operation but load_all_data_files returns its default when a call
\* it makes fails, and changes no point
DefaultsOnFailure ==
    /\ (Calls("search")
          /\ (Unanswered \/ ~collection_exists
                \/ EncodeFails(args'.query_text)))
         => ret' = <<>>
    /\ (Calls("check_question_exists")
          /\ (Unanswered \/ ~collection_exists
                \/ EncodeFails(args'.question)))
         => ret' = <<FALSE, None>>
    /\ (Calls("index_documents")
          /\ (Unanswered \/ ~collection_exists
                \/ \E i \in 1..Len(args'.documents) :
                      StoreEncodeFails(args'.documents[i].question)))
         => (ret' = FALSE /\ points' = points)
    /\ (Calls("create_collection") /\ Unanswered)
         => (ret' = FALSE /\ collection_exists' = collection_exists)
    /\ (Calls("clear_collection") /\ (Unanswered \/ ~backend_up'))
         => (ret' = FALSE /\ (Unanswered => points' = points))
    /\ (Calls("collection_exists_and_has_data") /\ Unanswered)
         => ret' = FALSE
    /\ (Calls("load_data_from_json") /\ args'.file.kind = "raises")
         => ret' = <<>>
    /\ (Calls("store_question")
          /\ (Unanswered \/ ~collection_exists
                \/ StoreEncodeFails(args'.question)))
         => (ret' = FALSE /\ points' = points)
    /\ Calls("check_and_store_question")
         => LET searched == ~(Unanswered \/ ~collection_exists
                                \/ EncodeFails(args'.question))
                stored == ~(~qdrant_client \/ ~backend_up'
                              \/ ~collection_exists
                              \/ StoreEncodeFails(args'.question))
            IN  /\ DefaultRecord(ret', args'.question, searched, stored)
                /\ ~stored => points' = points
    /\ (op = "batch_check_and_store" /\ op' = op)
         => LET question == args.questions_data[Len(ret')].question
                searched == ~(Unanswered \/ ~collection_exists
                                \/ EncodeFails(question))
                stored == ~(~qdrant_client \/ ~backend_up'
                              \/ ~collection_exists
                              \/ StoreEncodeFails(question))
            IN  /\ Len(ret') = Len(ret) + 1
                /\ ret'[Len(ret')].batch_index = Len(ret)
                /\ DefaultRecord(ret'[Len(ret')].result, question,
                                 searched, stored)
                /\ ~stored => points' = points

\* the step of thread 1 in which create_collection is called
CreatesForLoad ==
    threads[1].pc = "create_collection" /\ threads'[1].pc # "create_collection"

\* model.encode raises on a document that the load would index
CorpusEncodeFails ==
    \E c \in CorpusItems(threads[1].args.files) :
       c.is_dict /\ StoreEncodeFails(c.question)

\* C16, as amended: when a call it makes fails (the server does not answer,
\* the client or the collection is missing, model.encode raises, a file
\* cannot be parsed), each of search, index_documents, create_collection,
\* clear_collection, collection_exists_and_has_data, load_data_from_json,
\* check_question_exists, store_question, check_and_store_question and
\* batch_check_and_store returns its default ([], False, (False, None), a
\* complete result record); load_all_data_files returns False when its
\* create_collection or its index_documents fails.
C16_DefaultsOnFailure ==
    [][ /\ DefaultsOnFailure
        /\ (CreatesForLoad /\ Unanswered)
             => (threads'[1].pc = "done" /\ threads'[1].ret = Some(FALSE))
        /\ (IndexesCorpus
              /\ (Unanswered \/ ~collection_exists \/ CorpusEncodeFails))
             => (threads'[1].ret = Some(FALSE) /\ points' = points)
      ]_vars

\* model.encode raised inside index_documents, on a healthy server
C16_Witness ==
    /\ IsIndex /\ Healthy
    /\ args.documents # <<>>
    /\ StoreEncodeFails(args.documents[1].question)
    /\ ret = FALSE

\* C16, as stated: load_all_data_files, too, returns False in every
\* execution in which one of its calls failed, the clear_collection of a
\* forced load among them.
C16_EveryFailureGivesDefault ==
    [][ /\ DefaultsOnFailure
        /\ (CreatesForLoad /\ Unanswered)
             => (threads'[1].pc = "done" /\ threads'[1].ret = Some(FALSE))
        /\ (IndexesCorpus
              /\ (Unanswered \/ ~collection_exists \/ CorpusEncodeFails
                    \/ (threads[1].args.force_reload
                          /\ ~threads[1].local.cleared)))
             => threads'[1].ret = Some(FALSE)
      ]_vars

\* C17, as stated: when model.encode raises during a
\* check_and_store_question (in its search and in its store), the call
\* returns the record of the except branch: exists = false, stored = false,
\* action_taken = error, with the message under the key 'error'.
C17_EncodeFailureGivesErrorTag ==
    [][ ( /\ Calls("check_and_store_question")
          /\ EncodeFails(args'.question)
          /\ StoreEncodeFails(args'.question) )
        => /\ ret'.exists = FALSE
           /\ ret'.stored = FALSE
           /\ ret'.action_taken = "error"
           /\ "error" \in DOMAIN ret'
      ]_vars

-----------------------------------------------------------------------------
\* the moves of one check_and_store_question call between its states
CasEdges ==
    { <<"idle", "START">>, <<"START", "SEARCHED">>,
      <<"SEARCHED", "STORE_ATTEMPTED">>, <<"SEARCHED", "SKIPPED">>,
      <<"STORE_ATTEMPTED", "STORED">>, <<"STORE_ATTEMPTED", "STORE_FAILED">> }
      \cup { <<a, "ERROR">> :
               a \in {"START", "SEARCHED", "STORE_ATTEMPTED"} }
      \cup { <<a, "idle">> :
               a \in {"STORED", "STORE_FAILED", "SKIPPED", "ERROR"} }

\* the state a result record belongs to
StateOfTag(tag) ==
    IF tag \in StoredTags THEN "STORED"
    ELSE IF tag = "storage_failed" THEN "STORE_FAILED"
    ELSE IF tag = "skipped_similar_exists" THEN "SKIPPED"
    ELSE IF tag = "error" THEN "ERROR"
    ELSE "none"

\* C18: every call of check_and_store_question moves START -> SEARCHED ->
\* (STORE_ATTEMPTED -> STORED | STORE_FAILED) | SKIPPED: the store is only
\* attempted (and the collection only changed) by a call whose one search has
\* returned, a call issues at most one search and at most one upsert, a call
\* in STORE_FAILED does nothing but return, and the record a call returns
\* carries the tag of the one terminal state it ended in.
C18_CheckAndStoreStateMachine ==
    [][ \A t \in Threads :
          LET before == threads[t]
              after == threads'[t]
          IN  /\ before.pc # after.pc => <<before.pc, after.pc>> \in CasEdges
              /\ Len(after.searches) <= 1
              /\ Len(after.upserts) <= 1
              /\ after.pc = "STORE_ATTEMPTED" => Len(after.searches) = 1
              /\ Len(after.upserts) > Len(before.upserts)
                   => /\ before.pc = "STORE_ATTEMPTED"
                      /\ Len(before.searches) = 1
              /\ points' # points
                   => \E u \in Threads :
                         /\ threads[u].pc = "STORE_ATTEMPTED"
                         /\ threads'[u].pc = "STORED"
              /\ after.pc \in Terminal
                   => /\ after.ret # <<>>
                      /\ StateOfTag(after.ret[1].action_taken) = after.pc
              /\ Running(after) => after.ret = <<>>
      ]_vars

\* a call that failed to store after its search, with one upsert issued and
\* not repeated, next to a call of the other caller that stored
C18_Witness ==
    \E t, u \in Threads :
       /\ threads[t].pc = "STORE_FAILED"
       /\ Len(threads[t].searches) = 1
       /\ Len(threads[t].upserts) = 1
       /\ threads[u].pc = "STORED"

-----------------------------------------------------------------------------
\* check_question_exists reports question as existing when it finds the point
\* stored for other: by similarity or by normalized text
Matches(question, other) ==
    \/ SimilarityMeets(CosinePct(generate_embedding(question),
                                 generate_embedding(strip(other))),
                       similarity_threshold)
    \/ _normalize_question(question) = _normalize_question(strip(other))

\* a call that has returned the record of a new question, not forced
StoredAsNew(t) ==
    /\ threads[t].pc = "STORED"
    /\ ~threads[t].args.force_store
    /\ threads[t].ret[1].action_taken = "stored_new_question"

\* both callers have returned stored_new_question for questions that match
\* each other
BothStoredAsNew(t, u) ==
    /\ t # u
    /\ StoredAsNew(t)
    /\ StoredAsNew(u)
    /\ Matches(threads[t].args.question, threads[u].args.question)
    /\ Matches(threads[u].args.question, threads[t].args.question)

\* the callers passed the same question and answer up to surrounding
\* whitespace
SameStrippedPair(t, u) ==
    /\ strip(threads[t].args.question) = strip(threads[u].args.question)
    /\ strip(threads[t].args.answer) = strip(threads[u].args.answer)

\* C19: two calls of check_and_store_question that did not overlap, whose
\* searches the server answered, never both return stored_new_question for
\* questions that match each other (calls that overlap can: see the
\* witness); a step of a call adds at most one point to the collection, and
\* only the store of a call does; and when two calls that stored carry the
\* same stripped question and answer, the collection holds one point for
\* that content.
C19_RaceBoundedToOneDuplicate ==
    /\ [](\A t, u \in Threads :
            /\ ( /\ BothStoredAsNew(t, u)
                 /\ threads[t].local.answered
                 /\ threads[u].local.answered )
               => threads[t].overlapped /\ threads[u].overlapped
            /\ ( /\ t # u
                 /\ threads[t].pc = "STORED"
                 /\ threads[u].pc = "STORED"
                 /\ SameStrippedPair(t, u) )
               => Cardinality(PointsOf(points, threads[t].args.question,
                                       threads[t].args.answer)) = 1)
    /\ [][ /\ Cardinality(points') <= Cardinality(points) + 1
           /\ points' # points
                => \E t \in Threads :
                      /\ threads[t].pc = "STORE_ATTEMPTED"
                      /\ threads'[t].pc = "STORED"
                      /\ \A u \in Threads \ {t} : threads'[u] = threads[u]
       ]_vars

\* two overlapping calls, not forced, for different questions that match
\* each other: both searches were answered before either store, both
\* returned stored_new_question, and the collection holds a point for each
C19_Witness ==
    \E t, u \in Threads :
       /\ BothStoredAsNew(t, u)
       /\ threads[t].overlapped /\ threads[u].overlapped
       /\ threads[t].local.answered /\ threads[u].local.answered
       /\ threads[t].searches = << <<>> >>
       /\ threads[u].searches = << <<>> >>
       /\ ~SameStrippedPair(t, u)
       /\ Cardinality(points) = 2

-----------------------------------------------------------------------------
\* thread t returns from load_all_data_files in this step
LoadReturns(t) == Running(threads[t]) /\ threads'[t].pc = "done"

\* a forced load of an existing directory whose files hold JSON objects
\* only, one of them at least with a question
ForcedLoadOfCorpus(rec) ==
    /\ rec.args.force_reload
    /\ rec.args.dir_exists
    /\ \A c \in CorpusItems(rec.args.files) : c.is_dict
    /\ CorpusPairs(rec.args.files) # {}

\* C20: on a healthy backend, a forced load of the corpus that no other
\* load overlapped returns true and leaves in the collection exactly one
\* point for each distinct trimmed (question, answer) of the corpus with a
\* question (loads that overlap need not: see the witness).
C20_SerialReloadsLeaveCorpus ==
    [][ \A t \in Threads :
          ( /\ LoadReturns(t)
            /\ ForcedLoadOfCorpus(threads[t])
            /\ ~threads[t].overlapped
            /\ qdrant_client /\ backend_up )
          => /\ threads'[t].ret = Some(TRUE)
             /\ threads'[t].local.cleared
             /\ HoldsExactly(points', CorpusPairs(threads[t].args.files))
      ]_vars

\* two overlapping forced loads on a healthy backend: one has upserted
\* while the collection was deleted by the other, which has not yet
\* created it again, and has returned false
C20_Witness ==
    \E t, u \in Threads :
       /\ qdrant_client /\ backend_up
       /\ threads[t].pc = "done"
       /\ ForcedLoadOfCorpus(threads[t])
       /\ threads[t].overlapped
       /\ threads[t].local.cleared
       /\ Len(threads[t].upserts) = 1
       /\ threads[t].ret = Some(FALSE)
       /\ threads[u].pc = "recreate_collection"
       /\ ForcedLoadOfCorpus(threads[u])
       /\ ~collection_exists

\* the other outcome of overlapping forced loads: a load that has returned
\* true, and the collection deleted by the load that overlapped it
C20_CompletedLoadWiped ==
    \E t, u \in Threads :
       /\ qdrant_client /\ backend_up
       /\ threads[t].pc = "done"
       /\ ForcedLoadOfCorpus(threads[t])
       /\ threads[t].overlapped
       /\ threads[t].ret = Some(TRUE)
       /\ Len(threads[t].upserts) = 1
       /\ threads[u].pc = "recreate_collection"
       /\ threads[u].overlapped
       /\ ForcedLoadOfCorpus(threads[u])
       /\ ~collection_exists /\ points = {}

-----------------------------------------------------------------------------
\* a step that deletes the collection: clear_collection called directly, or
\* by a load with force_reload
ClearsCollection ==
    \/ Calls("clear_collection")
    \/ \E t \in Threads :
          /\ threads[t].pc = "delete_collection"
          /\ threads[t].args.force_reload
          /\ threads'[t].pc = "recreate_collection"

\* C21: no step of search, check_question_exists, store_question,
\* check_and_store_question, batch_check_and_store, index_documents,
\* create_collection, collection_exists_and_has_data, load_data_from_json
\* or a load without force_reload removes a point id from the collection:
\* an id leaves only in a step of clear_collection, and a load runs
\* clear_collection only with force_reload.
C21_PointsLeaveOnlyByClear ==
    [][ /\ ~ClearsCollection => PointIds(points) \subseteq PointIds(points')
        /\ \A t \in Threads :
              threads'[t].pc \in {"delete_collection", "recreate_collection"}
                => threads'[t].args.force_reload
      ]_vars

\* a forced store has written a second point next to the one it matched
C21_Witness ==
    /\ op = "check_and_store_question"
    /\ ret.action_taken = "stored_despite_similarity"
    /\ upsert_calls # <<>>
    /\ Cardinality(points) = 2

-----------------------------------------------------------------------------
\* what check_question_exists answers for question on the results of its
\* search when it compares with thr
ExistsWith(results, question, thr) ==
    \/ \E i \in 1..Len(results) : results[i].similarity >= thr
    \/ \E i \in 1..Len(results) :
          NormalText(results[i].question) = NormalText(question)

\* C22: similarity_threshold is 0.85 after construction and always within
\* [0.0, 1.0]; update_similarity_threshold with a value of the range, the
\* bounds included, returns true and makes it the threshold, with a value
\* outside it returns false and leaves the threshold as it was; no other
\* operation changes the threshold; and check_question_exists called with no
\* threshold, and check_and_store_question, compare with the threshold the
\* last accepted update set.
C22_ThresholdStaysInRange ==
    /\ similarity_threshold = 85
    /\ [](0 <= similarity_threshold /\ similarity_threshold <= 100)
    /\ [][ /\ Calls("update_similarity_threshold")
              => LET x == args'.new_threshold
                 IN  IF 0 <= x /\ x <= 100
                     THEN ret' = TRUE /\ similarity_threshold' = x
                     ELSE /\ ret' = FALSE
                          /\ similarity_threshold' = similarity_threshold
           /\ ~Calls("update_similarity_threshold")
              => similarity_threshold' = similarity_threshold
           /\ (Calls("check_question_exists") /\ args'.threshold = None)
              => ret'[1] = ExistsWith(search_returned'[1], args'.question,
                                      similarity_threshold)
           /\ Calls("check_and_store_question")
              => ret'.exists = ExistsWith(search_returned'[1],
                                          args'.question,
                                          similarity_threshold)
       ]_vars

\* after the threshold was lowered to 0.44, a check_and_store_question
\* skips a question for a result of similarity 0.44
C22_Witness ==
    /\ op = "check_and_store_question"
    /\ similarity_threshold = 44
    /\ ret.action_taken = "skipped_similar_exists"
    /\ ret.similarity_score = 44

-----------------------------------------------------------------------------
\* batch_check_and_store goes over one more item in this step
BatchStep == op = "batch_check_and_store" /\ op' = op

\* C23: batch_check_and_store goes over the items in input order and
\* returns when it has one record for each: the record of item i (counted
\* from 0) is appended after those of the items before it, carries
\* batch_index = i and the question of item i, and comes from a call
\* without force_store; when the server answers the search of an item, the
\* search returns the point of every earlier item of the batch that was
\* stored; and when an item has the question of the item before it, which
\* was stored as new, it is skipped as existing.
C23_BatchInOrder ==
    [][ /\ BatchStep
          => LET i == Len(ret)
                 item == args.questions_data[i + 1]
                 record == ret'[i + 1]
                 found == search_returned'[1]
             IN  /\ ret' = Append(ret, record)
                 /\ i < Len(args.questions_data)
                 /\ record.batch_index = i
                 /\ record.result.question = item.question
                 /\ record.result.action_taken # "stored_despite_similarity"
                 /\ Healthy
                      => \A k \in 1..i :
                            ret[k].result.stored
                              => \E n \in 1..Len(found) :
                                    /\ found[n].question
                                         = strip(args.questions_data[k].question)
                                    /\ found[n].answer
                                         = strip(args.questions_data[k].answer)
                 /\ ( /\ Healthy /\ i >= 1
                      /\ args.questions_data[i].question = item.question
                      /\ ret[i].result.action_taken = "stored_new_question" )
                      => record.result.action_taken = "skipped_similar_exists"
        /\ (op = "batch_check_and_store" /\ op' = "idle")
          => Len(ret) = Len(args.questions_data)
      ]_vars

\* a batch of the same question twice on an empty collection: stored, then
\* skipped
C23_Witness ==
    /\ op = "batch_check_and_store"
    /\ Len(args.questions_data) = 2
    /\ args.questions_data[1].question = <<" ", "A", "?">>
    /\ args.questions_data[2].question = <<" ", "A", "?">>
    /\ Len(ret) = 2
    /\ ret[1].batch_index = 0 /\ ret[2].batch_index = 1
    /\ ret[1].result.action_taken = "stored_new_question"
    /\ ret[2].result.action_taken = "skipped_similar_exists"
    /\ Cardinality(points) = 1

-----------------------------------------------------------------------------
\* the collection holds a question with the normalized text of question
\* that is not among the results
MatchOutsideResults(found, question) ==
    /\ \E p \in points :
          NormalText(p.question) = NormalText(question)
    /\ \A n \in 1..Len(found) :
          NormalText(found[n].question) # NormalText(question)

BelowThreshold(found) ==
    \A n \in 1..Len(found) : found[n].similarity < similarity_threshold

\* C24: check_question_exists compares normalized texts with the results of
\* its search only, at most 5: when the collection holds a question with the
\* normalized text of the query, none of the results has that text and none
\* reaches the threshold, check_question_exists returns (false, None), and
\* check_and_store_question without force_store on a healthy backend stores
\* the question and returns stored_new_question.
C24_FallbackSeesTopFiveOnly ==
    [][ /\ Calls("check_question_exists")
          => LET found == search_returned'[1]
             IN  /\ Len(found) <= 5
                 /\ (MatchOutsideResults(found, args'.question)
                     /\ BelowThreshold(found))
                      => ret' = <<FALSE, None>>
        /\ Calls("check_and_store_question")
          => LET found == search_returned'[1]
             IN  /\ Len(found) <= 5
                 /\ (MatchOutsideResults(found, args'.question)
                     /\ BelowThreshold(found) /\ ~args'.force_store)
                      => /\ ~ret'.exists
                         /\ ret'.stored
                         /\ ret'.action_taken = "stored_new_question"
                         /\ Len(upsert_calls') = 1
                         /\ PointsOf(points', args'.question, args'.answer)
                              # {}
      ]_vars

\* the question "a" was stored as new next to the indexed "A?", which the
\* search had not returned: the collection holds both
C24_Witness ==
    /\ op = "check_and_store_question"
    /\ args.question = <<"a">>
    /\ ret.action_taken = "stored_new_question"
    /\ Len(Results) = 5
    /\ \A n \in 1..Len(Results) : Results[n].question = <<"b">>
    /\ \E p \in points : p.question = <<"A", "?">>
    /\ \E p \in points : p.question = <<"a">>
    /\ Cardinality(points) = 7

-----------------------------------------------------------------------------
\* the collection holds, among the 5 points nearest to question, one that
\* meets the threshold or has the normalized text of question
HeldInTopFive(question) ==
    \E hits \in QdrantSearch(generate_embedding(question), 5) :
       \E n \in 1..Len(hits) :
          \/ CosinePct(generate_embedding(question), hits[n].vector)
               >= similarity_threshold
          \/ NormalText(hits[n].question) = NormalText(question)

\* the one caller stores without force_store in this step; no other step
\* lies between its search and this one that changes the collection
StoresUnforced ==
    /\ threads[1].pc = "STORE_ATTEMPTED"
    /\ threads'[1].pc = "STORED"
    /\ ~threads[1].args.force_store

\* C25: without force_store, check_and_store_question adds a point only
\* if the top 5 its search returned held no question that meets the
\* threshold or has the normalized text of the question (a search the
\* server does not answer returns none); in particular, when the server
\* answered the search, the collection held no such question among the 5
\* nearest to the query: a question with a matching point in a reachable
\* index is not stored again.
C25_StoresOnlyAfterNoMatchReturned ==
    [][ /\ points' # points => threads[1].pc = "STORE_ATTEMPTED"
        /\ StoresUnforced
          => /\ Len(threads[1].searches) = 1
             /\ Len(threads[1].searches[1]) <= 5
             /\ ~ExistsWith(threads[1].searches[1],
                            threads[1].args.question, similarity_threshold)
             /\ threads[1].local.answered
                  => ~HeldInTopFive(threads[1].args.question)
      ]_vars

\* a call skipped "a" on the result "A?", a point of another text and
\* another vector that the answered search returned
C25_Witness ==
    /\ threads[1].pc = "SKIPPED"
    /\ ~threads[1].args.force_store
    /\ threads[1].local.answered
    /\ threads[1].args.question = <<"a">>
    /\ threads[1].ret[1].similar_question = Some(<<"A", "?">>)
    /\ threads[1].ret[1].similarity_score = 44
    /\ HeldInTopFive(<<"a">>)

-----------------------------------------------------------------------------
\* a request is answered in this step
Answered(t) == threads[t].pc # "done" /\ threads'[t].pc = "done"

\* C26, as stated: while the service has no Qdrant client, every request to
\* /vector/search is answered "Vector service not available" and every
\* request to /vector/status is answered with the status "unavailable",
\* the first and every later one.
C26_UnavailableOnEveryCall ==
    [][ (~qdrant_client /\ Answered(1))
          => LET response == threads'[1].ret[1]
             IN  IF threads'[1].args.route = "/vector/search"
                 THEN /\ response.status_code = 500
                      /\ response.detail = "Vector service not available"
                 ELSE response.status = "unavailable"
      ]_vars

-----------------------------------------------------------------------------
\* thread 1 has finished a load that returned false
LoadedFalse == threads[1].pc = "done" /\ threads[1].ret = Some(FALSE)

\* C27, as amended: a load that returns false leaves the points of the
\* collection exactly as they were before the call when it ran without
\* force_reload; with force_reload it does so when the collection then held
\* no point or the load failed before delete_collection took effect, and
\* otherwise it leaves the collection without any point.
C27_FailedLoadKeepsPointsUnlessForced ==
    LoadedFalse
      => \/ points = threads[1].local.before
         \/ /\ threads[1].args.force_reload
            /\ threads[1].args.dir_exists
            /\ qdrant_client
            /\ points = {}

\* a load without force_reload has created the collection, found no
\* document in the directory and returned false; the points stored before
\* are still there
C27_Witness ==
    /\ LoadedFalse
    /\ ~threads[1].args.force_reload
    /\ threads[1].local.files_read
    /\ threads[1].local.before # {}
    /\ points = threads[1].local.before

\* C27, as stated: a load that returns false, with or without force_reload,
\* leaves the points of the collection exactly as they were before the call.
C27_FailedLoadKeepsPoints ==
    LoadedFalse => points = threads[1].local.before

-----------------------------------------------------------------------------
(* The load without force_reload and the documents of the directory *)

\* thread 1 has a load without force_reload that returned True
LoadedTrueUnforced ==
    /\ threads[1].pc = "done"
    /\ threads[1].ret = Some(TRUE)
    /\ ~threads[1].args.force_reload

\* the collection holds a point for each of the pairs
HoldsEach(stored, pairs) ==
    \A pair \in pairs :
       \E p \in stored : p.question = pair[1] /\ p.answer = pair[2]

\* C28, amended: after a load without force_reload has returned true, every
\* document of the directory that has a question is in the collection if
\* the load read the directory; if it took the short cut instead, because
\* the collection already held a point, the collection is as it was when
\* the load began.
C28_UnforcedLoadHoldsCorpusUnlessShortCut ==
    LoadedTrueUnforced
      => IF threads[1].local.files_read
         THEN HoldsEach(points, CorpusPairs(threads[1].args.files))
         ELSE /\ threads[1].local.before # {}
              /\ points = threads[1].local.before

\* the load read the directory although a question had been stored before
\* it: the count could not be read when the load began
C28_Witness ==
    /\ LoadedTrueUnforced
    /\ threads[1].local.files_read
    /\ \E p \in threads[1].local.before : p.question = <<"A", "?">>
    /\ CorpusPairs(threads[1].args.files) # {}
    /\ HoldsEach(points, CorpusPairs(threads[1].args.files))

\* C28, as stated: after every load without force_reload that returned
\* true, every document of the directory that has a question is in the
\* collection.
C28_UnforcedLoadHoldsCorpus ==
    LoadedTrueUnforced
      => HoldsEach(points, CorpusPairs(threads[1].args.files))

-----------------------------------------------------------------------------
(* index_documents on batches in which some documents cannot be embedded
   and some are no JSON object *)

\* the documents handed over: JSON objects, and a value that is no object
Items ==
    { LoadItem(q, <<"x">>) : q \in Texts } \cup { NotAnObject }

ItemBatches == UNION { [1..n -> Items] : n \in 0..MaxBatch }

\* model.encode raises on some of the questions
ItemEmbeds ==
    { e \in [EmbedTexts -> {0, Raised}] :
        \A t \in EmbedTexts : (t = <<>> \/ strip(t) # t) => e[t] = 0 }

\* variant: each point is written as soon as it is built
index_any_documents_piecewise(documents, reachable) ==
    IF ~qdrant_client
    THEN [ok |-> FALSE, calls |-> <<>>, points |-> points]
    ELSE IF \E k \in 1..Len(documents) : ~documents[k].is_dict
    THEN [ok |-> FALSE, calls |-> <<>>, points |-> points]
    ELSE LET batch == CollectPoints(documents, 1, {}, <<>>)
             built == SelectSeq(batch, LAMBDA p : p.vector # Raised)
         IN  IF \E k \in 1..Len(batch) : batch[k].vector = Raised
             THEN [ok |-> FALSE, calls |-> <<built>>,
                   points |-> IF reachable /\ collection_exists
                              THEN QdrantUpsert(points, built)
                              ELSE points]
             ELSE index_documents(documents, reachable)

\* index_documents when a document may be no JSON object: doc.get raises
\* AttributeError inside the loop, before any upsert, and line 309 catches it
index_any_documents(documents, reachable) ==
    IF ~qdrant_client
    THEN [ok |-> FALSE, calls |-> <<>>, points |-> points]
    ELSE IF \E k \in 1..Len(documents) : ~documents[k].is_dict
    THEN [ok |-> FALSE, calls |-> <<>>, points |-> points]
    ELSE index_documents(documents, reachable)

IndexItems(documents) ==
    LET indexed == index_any_documents(documents, backend_up)
    IN  /\ op = "idle"
        /\ Cardinality(indexed.points) <= MaxPoints
        /\ points' = indexed.points
        /\ ret' = indexed.ok
        /\ upsert_calls' = indexed.calls
        /\ op' = "index_documents"
        /\ args' = [documents |-> documents]
        /\ search_returned' = <<>>
        /\ UNCHANGED <<qdrant_client, backend_up, collection_exists, embed,
                       _vector_service, similarity_threshold, threads>>

InitItems ==
    /\ qdrant_client \in BOOLEAN
    /\ backend_up = TRUE
    /\ collection_exists \in BOOLEAN
    /\ points = {}
    /\ embed \in ItemEmbeds
    /\ similarity_threshold = 85
    /\ _vector_service = None
    /\ op = "idle"
    /\ args = <<>>
    /\ ret = <<>>
    /\ search_returned = <<>>
    /\ upsert_calls = <<>>
    /\ threads = [t \in Threads |-> IdleThread]

NextItems ==
    \/ Return
    \/ BackendDown
    \/ BackendUp
    \/ CreateCollection
    \/ \E docs \in ItemBatches : IndexItems(docs)

SpecItems == InitItems /\ [][NextItems]_vars

\* the step in which index_documents runs
IndexesItems == op = "idle" /\ op' = "index_documents"

\* a document of the batch that reaches model.encode and makes it raise
EmbeddingFails(documents) ==
    \E k \in 1..Len(documents) :
       /\ documents[k].is_dict
       /\ strip(documents[k].question) # <<>>
       /\ embed[strip(documents[k].question)] = Raised

\* C29: index_documents issues at most one upsert, after the loop over the
\* documents; whenever it returns False (no client, no document with a
\* question, model.encode raising on a document, a document that is no
\* JSON object, an upsert that fails) the points of the collection are
\* those it held before the call; and a batch with a document whose
\* embedding fails returns False without any upsert.
C29_IndexDocumentsAllOrNothing ==
    [][ IndexesItems
          => /\ Len(upsert_calls') <= 1
             /\ (ret' = FALSE => points' = points)
             /\ (EmbeddingFails(args'.documents)
                   => ret' = FALSE /\ upsert_calls' = <<>>)
      ]_vars

\* the second document of a batch fails to embed after the first was
\* embedded, on a collection that already holds a point: nothing is written
C29_Witness ==
    /\ op = "index_documents" /\ ret = FALSE
    /\ qdrant_client /\ backend_up /\ collection_exists
    /\ Len(args.documents) = 2
    /\ args.documents[1].is_dict /\ args.documents[2].is_dict
    /\ strip(args.documents[1].question) # <<>>
    /\ embed[strip(args.documents[1].question)] = 0
    /\ strip(args.documents[2].question) # <<>>
    /\ embed[strip(args.documents[2].question)] = Raised
    /\ upsert_calls = <<>>
    /\ points # {}
    /\ \A p \in points : p.question # strip(args.documents[1].question)

-----------------------------------------------------------------------------
\* the operations of QuestionUpdationService
UpdationOps ==
    { "check_question_exists", "store_question", "check_and_store_question",
      "batch_check_and_store" }

\* C30: no operation of QuestionUpdationService creates the collection;
\* while the collection does not exist, every check_and_store_question
\* with a non-empty question returns action_taken = storage_failed with
\* stored = false, writes no point, and the collection is still absent
\* afterwards.
C30_NoCollectionNoStore ==
    [][ /\ (op = "idle" /\ op' \in UpdationOps)
             => collection_exists' = collection_exists
        /\ ( /\ Calls("check_and_store_question")
             /\ ~collection_exists
             /\ args'.question # <<>> )
             => /\ ret'.action_taken = "storage_failed"
                /\ ret'.stored = FALSE
                /\ points' = points
                /\ ~collection_exists'
      ]_vars

\* the upsert of a question that could be embedded was sent to a server
\* that answers, and failed for want of the collection
C30_Witness ==
    /\ op = "check_and_store_question"
    /\ qdrant_client /\ backend_up /\ ~collection_exists
    /\ strip(args.question) # <<>>
    /\ Len(upsert_calls) = 1
    /\ ret.action_taken = "storage_failed"
    /\ ret.stored = FALSE
    /\ points = {}

====
